---- MODULE Spec2Model ----
(***************************************************************************)
(* The-Uplink: the local-first inventory cache (database/inventory_cache)  *)
(* and the shared remote inventory store (database/inventory).             *)
(*                                                                         *)
(* Every node owns a local SQLite cache; all nodes share the remote active *)
(* table and the remote archive table of one project.  Projects live in    *)
(* separate database files and never interact, so one project is modelled. *)
(* The columns item_sku, lpn, location, repair_state and order_number are  *)
(* carried together as one value "fields"; created_at and last_modified    *)
(* are not modelled, so the result of a listing is the set of its rows.    *)
(***************************************************************************)
EXTENDS Integers, FiniteSets, Sequences, TLC

Nodes == {"A", "B"}
Serials == {"SN1", "SN2"}
FieldValues == {"f0", "f1"}

\* Bounds on the AUTOINCREMENT counters of the local and the remote table.
MaxLocalId == 3
MaxRemoteId == 2

\* Bound on the number of façade calls (add, update, delete, export) of a run.
MaxCalls == 2

\* Bounds on the number of calls of the SKU cache and on the limit of a search.
MaxSkuCalls == 2
MaxLimit == 2

\* remote_id INTEGER DEFAULT NULL
NULL == 0

\* ORDER BY imported_at DESC LIMIT 100
IMPORTED_WINDOW == 100

VARIABLES
    local,                \* node -> rows of the local inventory table
    local_seq,            \* node -> last id handed out by the local AUTOINCREMENT
    tombstones,           \* node -> remote ids with a delete_<project>_<remote_id> key
    last_pull,            \* node -> whether last_pull_<project> is recorded
    imported_count,       \* node -> value stored under imported_count_<project>
    imported,             \* node -> rows of the local imported_inventory mirror
    remote,               \* rows of the remote active inventory table
    remote_seq,           \* last id handed out by the remote AUTOINCREMENT
    remote_imported,      \* rows of the remote imported_inventory table
    imported_seq,         \* last id handed out by the remote archive AUTOINCREMENT
    imported_clock,       \* number of archive batches written (imported_at)
    remote_up,            \* whether the shared drive is reachable
    wpc,                  \* node -> position of the background sync worker
    pending_items,        \* node -> rows fetched by the push phase
    remote_items,         \* node -> rows fetched by the pull phase
    local_synced_serials, \* node -> serials fetched by the pull phase
    apc,                  \* node -> position of a running move_to_imported_cached
    local_items,          \* node -> snapshot taken by move_to_imported_cached
    ret,                  \* the last step taken and what it returned
    calls                 \* façade calls made so far

coreVars == <<local, local_seq, tombstones, last_pull, imported_count, imported,
              remote, remote_seq, remote_imported, imported_seq, imported_clock,
              remote_up, wpc, pending_items, remote_items, local_synced_serials,
              apc, local_items, ret, calls>>

\* The thread of the background sync worker of a node.
VARIABLES
    stop_event,           \* node -> whether _sync_stop_event is set
    wloop                 \* node -> where the worker thread is and at which project

\* The threads of the background sync worker of the SKU cache.
VARIABLES
    sku_stop_event,       \* whether _sync_stop_event of the SKU cache is set
    sku_sync_thread,      \* the thread _sync_thread names, or "none"
    sku_loop              \* worker thread -> where it is and at which project

skuLoopVars == <<sku_stop_event, sku_sync_thread, sku_loop>>

loopVars == <<stop_event, wloop, skuLoopVars>>

localVars == <<local, local_seq, tombstones, last_pull, imported_count, imported>>
remoteVars == <<remote, remote_seq, remote_imported, imported_seq, imported_clock>>
workerVars == <<wpc, pending_items, remote_items, local_synced_serials>>
archiveVars == <<apc, local_items>>

\* History variables: they record what has happened and no operation reads
\* them.
VARIABLES
    cycle_rows,           \* node -> ids pending when the running cycle began, untouched since
    synced_once,          \* node -> ids marked synced since their last update
    synced_twice,         \* node -> ids marked synced again without an update between
    export_count,         \* node -> rows held when the export began, -1 once disturbed
    never_pushed,         \* node -> ids created by add that no push has marked synced
    phases_done,          \* node -> <<project, phase>> returned in the running cycle
    push_state,           \* node -> how the last push went, "none" once a call changed a row
    added,                \* <<node, serial>> of every add that returned True
    only_adds,            \* no update, delete or export has been called so far
    pushed_at_pull,       \* node -> serials pushed by their adders at the node's last pull
    deleted_elsewhere     \* node -> serials of pulled rows another node deleted since

\* The approved-SKU cache of one project.
VARIABLES
    approved_skus,        \* keys of the approved_skus table of the Durable Store
    sku_cache,            \* keys of the rows of the local mirror table sku_cache
    cache_version,        \* version stored in cache_metadata, 0 without a row
    skus,                 \* keys of _cache[project]['skus']
    sku_list,             \* _cache[project]['sku_list']
    version,              \* _cache[project]['metadata']['version']
    cache_lock,           \* the thread holding _cache_lock, or "free"
    tpc,                  \* thread -> position
    frame,                \* thread -> the call it is in
    cache_data,           \* thread -> the dict it will save
    remote_skus,          \* thread -> rows fetched by a resync
    saving,               \* thread -> what the running save has read
    sku_ret,              \* the last step of the SKU cache and what it returned
    sku_calls             \* calls of the SKU cache made so far

skuVars == <<approved_skus, sku_cache, cache_version, skus, sku_list, version,
             cache_lock, tpc, frame, cache_data, remote_skus, saving, sku_ret,
             sku_calls>>

\* History variables of the SKU cache.
VARIABLES
    store_ok,             \* thread -> whether the store write of its last call succeeded
    completed,            \* whether an operation has saved the project to the mirror
    cleared,              \* clear_all_skus_cached has returned and no write has followed
    added_skus            \* keys add_sku_cached returned True for, not removed since

skuHistory == <<store_ok, completed, cleared, added_skus>>

nodeHistory == <<cycle_rows, synced_once, synced_twice, export_count, push_state,
                 never_pushed, phases_done>>
clusterHistory == <<added, only_adds, pushed_at_pull, deleted_elsewhere>>

Result(op, n, arg, val, why) ==
    [op |-> op, node |-> n, arg |-> arg, val |-> val, why |-> why]

-----------------------------------------------------------------------------
(* Tables *)

LocalSerials(n) == {r.serial_number : r \in local[n]}

RemoteSerials == {r.serial_number : r \in remote}

LocalRowById(n, id) == {r \in local[n] : r.id = id}

\* A variant of LocalUniqueViolation that looks at the pending rows only.
LocalUniqueViolation_pending_only(n, serial, except_id) ==
    \E r \in local[n] :
       r.serial_number = serial /\ r.id # except_id /\ r.sync_status = "pending"

\* The local inventory table declares serial_number UNIQUE.
LocalUniqueViolation(n, serial, except_id) ==
    \E r \in local[n] : r.serial_number = serial /\ r.id # except_id

\* The remote inventory table declares no uniqueness on serial_number.
RemoteSerialUnique == FALSE

\* INSERT OR REPLACE INTO inventory on the remote table: a conflicting row is
\* replaced only where a uniqueness constraint makes it conflict.
RemoteInsertOrReplace(table, row) ==
    IF RemoteSerialUnique
    THEN {r \in table : r.serial_number # row.serial_number} \cup {row}
    ELSE table \cup {row}

\* The rows of get_all_inventory_cached: remote_id and last_modified are not
\* selected.
ListedRow(r) ==
    [id |-> r.id, serial_number |-> r.serial_number, fields |-> r.fields,
     sync_status |-> r.sync_status]

get_all_inventory_cached(n) == {ListedRow(r) : r \in local[n]}

get_inventory_count_cached(n) == Cardinality(local[n])

\* ORDER BY imported_at DESC leaves the order of rows with one imported_at
\* open: they come in the order of their ids or against it.
TieOrders == {"rowid", "reverse"}

\* Row x comes before row r in the result of ORDER BY imported_at DESC.
Before(x, r, tie) ==
    \/ x.imported_at > r.imported_at
    \/ /\ x.imported_at = r.imported_at
       /\ IF tie = "rowid" THEN x.id < r.id ELSE x.id > r.id

\* A variant of Window that keeps the oldest k rows.
Window_oldest(rows, k, tie) ==
    {r \in rows : Cardinality({x \in rows : Before(r, x, tie)}) < k}

\* ORDER BY imported_at DESC LIMIT k: the first k rows of that order.
Window(rows, k, tie) ==
    {r \in rows : Cardinality({x \in rows : Before(x, r, tie)}) < k}

-----------------------------------------------------------------------------
(* Write operations of the cache façade *)

Call ==
    /\ calls < MaxCalls
    /\ calls' = calls + 1

\* A variant of NewLocalRow that stores the row as already synced.
NewLocalRow_synced(id, fields, serial) ==
    [id |-> id, serial_number |-> serial, fields |-> fields,
     sync_status |-> "synced", remote_id |-> NULL]

\* INSERT INTO inventory (...) VALUES (..., 'pending', ?): remote_id defaults
\* to NULL.
NewLocalRow(id, fields, serial) ==
    [id |-> id, serial_number |-> serial, fields |-> fields,
     sync_status |-> "pending", remote_id |-> NULL]

\* A variant of UpdatedRow that leaves sync_status as it is.
UpdatedRow_keeps_status(r, fields, serial) ==
    [r EXCEPT !.fields = fields, !.serial_number = serial]

\* UPDATE inventory SET item_sku = ?, serial_number = ?, ..., sync_status =
\* 'pending', last_modified = ? WHERE id = ?
UpdatedRow(r, fields, serial) ==
    [r EXCEPT !.fields = fields, !.serial_number = serial, !.sync_status = "pending"]

\* A variant of TombstoneKeys that records a key for every deleted row.
TombstoneKeys_always(rows) == {r.remote_id : r \in rows}

\* if remote_id: INSERT OR REPLACE INTO sync_metadata (delete_<project>_<remote_id>)
TombstoneKeys(rows) == {r.remote_id : r \in {x \in rows : x.remote_id # NULL}}

add_inventory_item_cached(n, fields, serial, storage_ok) ==
    /\ Call
    /\ local_seq[n] < MaxLocalId
    /\ IF ~storage_ok
       THEN /\ ret' = Result("add", n, serial, FALSE, "storage")
            /\ UNCHANGED <<local, local_seq>>
       ELSE IF LocalUniqueViolation(n, serial, NULL)
       THEN /\ ret' = Result("add", n, serial, FALSE, "integrity")
            /\ UNCHANGED <<local, local_seq>>
       ELSE /\ local' = [local EXCEPT ![n] =
                           @ \cup {NewLocalRow(local_seq[n] + 1, fields, serial)}]
            /\ local_seq' = [local_seq EXCEPT ![n] = @ + 1]
            /\ ret' = Result("add", n, serial, TRUE, "ok")
    /\ UNCHANGED <<tombstones, last_pull, imported_count, imported>>
    /\ UNCHANGED <<remoteVars, remote_up, workerVars, archiveVars>>

update_inventory_item_cached(n, item_id, fields, serial, storage_ok) ==
    /\ Call
    /\ IF ~storage_ok
       THEN /\ ret' = Result("update", n, item_id, FALSE, "storage")
            /\ UNCHANGED local
       ELSE IF LocalRowById(n, item_id) # {} /\ LocalUniqueViolation(n, serial, item_id)
       THEN /\ ret' = Result("update", n, item_id, FALSE, "integrity")
            /\ UNCHANGED local
       ELSE /\ local' = [local EXCEPT ![n] =
                           {IF r.id = item_id THEN UpdatedRow(r, fields, serial)
                            ELSE r : r \in @}]
            /\ ret' = Result("update", n, item_id, TRUE, "ok")
    /\ UNCHANGED <<local_seq, tombstones, last_pull, imported_count, imported>>
    /\ UNCHANGED <<remoteVars, remote_up, workerVars, archiveVars>>

\* The SELECT, the DELETE and the tombstone INSERT share one transaction that
\* the final commit ends: when any of them raises (storage_ok = FALSE) the
\* connection is closed uncommitted and nothing is changed.
delete_inventory_item_cached(n, item_id, storage_ok) ==
    /\ Call
    /\ IF ~storage_ok
       THEN /\ ret' = Result("delete", n, item_id, FALSE, "storage")
            /\ UNCHANGED <<local, tombstones>>
       ELSE /\ local' = [local EXCEPT ![n] = {r \in @ : r.id # item_id}]
            /\ tombstones' = [tombstones EXCEPT ![n] =
                   @ \cup TombstoneKeys(LocalRowById(n, item_id))]
            /\ ret' = Result("delete", n, item_id, TRUE, "ok")
    /\ UNCHANGED <<local_seq, last_pull, imported_count, imported>>
    /\ UNCHANGED <<remoteVars, remote_up, workerVars, archiveVars>>

-----------------------------------------------------------------------------
(* Read operations of the cache façade *)

\* A variant of ReadOrDefault that answers from the table whatever the storage
\* does.
ReadOrDefault_always(storage_ok, answer, default) == answer

\* try: ... return <answer>; except Exception: return <default>
ReadOrDefault(storage_ok, answer, default) ==
    IF storage_ok THEN answer ELSE default

\* get_all_inventory_cached as a call: [] when the local cache cannot be
\* opened or queried.
list_inventory(n, storage_ok) ==
    /\ Call
    /\ ret' = Result("list", n, NULL,
                     ReadOrDefault(storage_ok, get_all_inventory_cached(n), {}),
                     IF storage_ok THEN "ok" ELSE "storage")
    /\ UNCHANGED <<localVars, remoteVars, remote_up, workerVars, archiveVars>>

\* get_inventory_count_cached as a call: 0 when the local cache cannot be
\* opened or queried.
count_inventory(n, storage_ok) ==
    /\ Call
    /\ ret' = Result("count", n, NULL,
                     ReadOrDefault(storage_ok, get_inventory_count_cached(n), 0),
                     IF storage_ok THEN "ok" ELSE "storage")
    /\ UNCHANGED <<localVars, remoteVars, remote_up, workerVars, archiveVars>>

-----------------------------------------------------------------------------
(* Background sync: push phase (_sync_to_remote) *)

\* A variant of PendingRows that selects every row.
PendingRows_all(n) == local[n]

\* SELECT ... FROM inventory WHERE sync_status = 'pending'
PendingRows(n) == {r \in local[n] : r.sync_status = "pending"}

PendingItem(r) == [id |-> r.id, serial_number |-> r.serial_number, fields |-> r.fields]

\* Items of one push whose remote INSERT did not raise.
Written(items, failed) == {i \in items : i.id \notin failed}

\* remote_cursor.lastrowid of item i: rows are written in the order fetched.
LastRowId(items, failed, i) ==
    remote_seq + Cardinality({j \in Written(items, failed) : j.id <= i.id})

RemoteRowOf(items, failed, i) ==
    [id |-> LastRowId(items, failed, i), serial_number |-> i.serial_number,
     fields |-> i.fields]

\* The remote table after the loop of INSERT OR REPLACE statements.
RECURSIVE RemoteAfterPush(_, _, _, _)
RemoteAfterPush(table, items, failed, todo) ==
    IF todo = {} THEN table
    ELSE LET i == CHOOSE x \in todo : \A y \in todo : x.id <= y.id
         IN RemoteAfterPush(RemoteInsertOrReplace(table, RemoteRowOf(items, failed, i)),
                            items, failed, todo \ {i})

\* A variant of MarkSynced that marks no row once an INSERT has raised.
MarkSynced_all_or_nothing(rows, items, failed) ==
    {IF failed = {} /\ \E i \in items : i.id = r.id
     THEN [r EXCEPT !.sync_status = "synced",
                    !.remote_id = LastRowId(items, failed,
                        CHOOSE i \in items : i.id = r.id)]
     ELSE r : r \in rows}

\* A variant of MarkSynced that does not store the remote id.
MarkSynced_without_remote_id(rows, items, failed) ==
    {IF \E i \in Written(items, failed) : i.id = r.id
     THEN [r EXCEPT !.sync_status = "synced"]
     ELSE r : r \in rows}

\* UPDATE inventory SET sync_status = 'synced', remote_id = ? WHERE id = ?
MarkSynced(rows, items, failed) ==
    {IF \E i \in Written(items, failed) : i.id = r.id
     THEN [r EXCEPT !.sync_status = "synced",
                    !.remote_id = LastRowId(items, failed,
                        CHOOSE i \in Written(items, failed) : i.id = r.id)]
     ELSE r : r \in rows}

PushOutcomes == {"commit", "remote_commit_fails", "local_commit_fails"}

\* A variant of PushResult in which the local marks survive a remote commit
\* that raises.
PushResult_marks_kept(n, items, failed, outcome) ==
    IF ~remote_up
    THEN [local |-> local[n], remote |-> remote, remote_seq |-> remote_seq]
    ELSE IF outcome = "remote_commit_fails"
    THEN [local |-> MarkSynced(local[n], items, failed), remote |-> remote,
          remote_seq |-> remote_seq]
    ELSE [local |-> IF outcome = "local_commit_fails" THEN local[n]
                    ELSE MarkSynced(local[n], items, failed),
          remote |-> RemoteAfterPush(remote, items, failed, Written(items, failed)),
          remote_seq |-> remote_seq + Cardinality(Written(items, failed))]

\* Lines 384-408 for the fetched items: the remote connection, the loop, the
\* two commits, as the tables they leave.  Nothing is written when the remote
\* cannot be opened or its commit raises; the local marks are lost when only
\* the local commit raises.
PushResult(n, items, failed, outcome) ==
    IF ~remote_up \/ outcome = "remote_commit_fails"
    THEN [local |-> local[n], remote |-> remote, remote_seq |-> remote_seq]
    ELSE [local |-> IF outcome = "local_commit_fails" THEN local[n]
                    ELSE MarkSynced(local[n], items, failed),
          remote |-> RemoteAfterPush(remote, items, failed, Written(items, failed)),
          remote_seq |-> remote_seq + Cardinality(Written(items, failed))]

PushWhy(failed, outcome) ==
    IF ~remote_up THEN "unreachable"
    ELSE IF outcome # "commit" THEN outcome
    ELSE IF failed # {} THEN "row_failed"
    ELSE "ok"

sync_to_remote_read(n) ==
    /\ UNCHANGED calls
    /\ wpc[n] = "idle"
    /\ pending_items' = [pending_items EXCEPT ![n] = {PendingItem(r) : r \in PendingRows(n)}]
    /\ wpc' = [wpc EXCEPT ![n] = IF PendingRows(n) = {} THEN "pull" ELSE "push_write"]
    /\ ret' = Result("push_read", n, NULL, TRUE, "ok")
    /\ UNCHANGED <<localVars, remoteVars, remote_up, remote_items,
                   local_synced_serials, archiveVars>>

sync_to_remote_write(n, failed, outcome) ==
    /\ UNCHANGED calls
    /\ wpc[n] = "push_write"
    /\ failed \subseteq {i.id : i \in pending_items[n]}
    /\ remote_seq + Cardinality(pending_items[n]) <= MaxRemoteId
    /\ LET after == PushResult(n, pending_items[n], failed, outcome)
       IN /\ local' = [local EXCEPT ![n] = after.local]
          /\ remote' = after.remote
          /\ remote_seq' = after.remote_seq
    /\ pending_items' = [pending_items EXCEPT ![n] = {}]
    /\ wpc' = [wpc EXCEPT ![n] = "pull"]
    /\ ret' = Result("push", n, failed, TRUE, PushWhy(failed, outcome))
    /\ UNCHANGED <<local_seq, tombstones, last_pull, imported_count, imported>>
    /\ UNCHANGED <<remote_imported, imported_seq, imported_clock, remote_up>>
    /\ UNCHANGED <<remote_items, local_synced_serials, archiveVars>>

-----------------------------------------------------------------------------
(* Background sync: pull-active phase (_sync_from_remote) *)

\* SELECT serial_number FROM inventory WHERE sync_status = 'synced'
SyncedSerials(n) ==
    {r.serial_number : r \in {x \in local[n] : x.sync_status = "synced"}}

sync_from_remote_read(n) ==
    /\ UNCHANGED calls
    /\ wpc[n] = "pull"
    /\ IF remote_up
       THEN /\ remote_items' = [remote_items EXCEPT ![n] = remote]
            /\ local_synced_serials' = [local_synced_serials EXCEPT ![n] = SyncedSerials(n)]
            /\ wpc' = [wpc EXCEPT ![n] = "pull_write"]
            /\ ret' = Result("pull_read", n, NULL, TRUE, "ok")
       ELSE /\ wpc' = [wpc EXCEPT ![n] = "imported"]
            /\ ret' = Result("pull", n, NULL, TRUE, "unreachable")
            /\ UNCHANGED <<remote_items, local_synced_serials>>
    /\ UNCHANGED <<localVars, remoteVars, remote_up, pending_items, archiveVars>>

\* A variant of PullCandidates with the membership test inverted.
PullCandidates_inverted(items, synced) ==
    {s \in {r.serial_number : r \in items} : s \in synced}

\* Serials the loop tries to INSERT: fetched from the remote and not among
\* the synced serials read earlier.
PullCandidates(items, synced) ==
    {s \in {r.serial_number : r \in items} : s \notin synced}

\* Candidates whose INSERT succeeds: the local UNIQUE(serial_number) holds.
PullInsertable(n, items, synced) ==
    {s \in PullCandidates(items, synced) : ~LocalUniqueViolation(n, s, NULL)}

\* stale_serials = local_synced_serials - remote_serials
StaleSerials(items, synced) == synced \ {r.serial_number : r \in items}

\* A variant of DeleteStale that deletes nothing.
DeleteStale_keeps(rows, stale) == rows

\* DELETE FROM inventory WHERE sync_status = 'synced' AND serial_number IN (...)
DeleteStale(rows, stale) ==
    {r \in rows : ~(r.sync_status = "synced" /\ r.serial_number \in stale)}

\* A variant of InsertPulled that writes with INSERT OR REPLACE.
InsertPulled_or_replace(rows, new) ==
    {r \in rows : \A x \in new : x.serial_number # r.serial_number} \cup new

\* INSERT INTO inventory ... except sqlite3.IntegrityError: pass
InsertPulled(rows, new) ==
    rows \cup {r \in new : \A x \in rows : x.serial_number # r.serial_number}

\* The ways the loop over the fetched rows can go.  Of several remote rows
\* with one serial the first in created_at order is tried first and the others
\* hit the UNIQUE constraint; created_at is not modelled, so any of them may
\* be the first (pick) and the rows inserted may get their ids in any order
\* (ids).  A rejected INSERT takes no id.
PullChoices(n, items, synced) ==
    {c \in [pick : [PullCandidates(items, synced) -> items],
            ids : [PullCandidates(items, synced) -> 0..MaxLocalId]] :
        /\ \A s \in PullCandidates(items, synced) : c.pick[s].serial_number = s
        /\ \A s \in PullCandidates(items, synced) \ PullInsertable(n, items, synced) :
              c.ids[s] = NULL
        /\ {c.ids[s] : s \in PullInsertable(n, items, synced)} =
              (local_seq[n] + 1)..
              (local_seq[n] + Cardinality(PullInsertable(n, items, synced)))}

\* A variant of PulledRows that does not store the remote id.
PulledRows_without_remote_id(items, synced, c) ==
    {[id |-> c.ids[s], serial_number |-> s, fields |-> c.pick[s].fields,
      sync_status |-> "synced", remote_id |-> NULL] :
         s \in PullCandidates(items, synced)}

\* INSERT INTO inventory (..., sync_status, remote_id) VALUES (..., 'synced', ?)
\* with the id of the remote row.
PulledRows(items, synced, c) ==
    {[id |-> c.ids[s], serial_number |-> s, fields |-> c.pick[s].fields,
      sync_status |-> "synced", remote_id |-> c.pick[s].id] :
         s \in PullCandidates(items, synced)}

\* Lines 447-475: the inserts, the stale delete, last_pull and the commit.
PullWrites(n, items, synced, c, commit_ok) ==
    /\ local_seq[n] + Cardinality(PullInsertable(n, items, synced)) <= MaxLocalId
    /\ IF commit_ok
       THEN /\ local' = [local EXCEPT ![n] =
                   DeleteStale(InsertPulled(@, PulledRows(items, synced, c)),
                               StaleSerials(items, synced))]
            /\ local_seq' = [local_seq EXCEPT ![n] =
                   @ + Cardinality(PullInsertable(n, items, synced))]
            /\ last_pull' = [last_pull EXCEPT ![n] = TRUE]
            /\ ret' = Result("pull", n, NULL, TRUE, "ok")
       ELSE /\ UNCHANGED <<local, local_seq, last_pull>>
            /\ ret' = Result("pull", n, NULL, TRUE, "local_commit_fails")

sync_from_remote_write(n, c, commit_ok) ==
    /\ UNCHANGED calls
    /\ wpc[n] = "pull_write"
    /\ PullWrites(n, remote_items[n], local_synced_serials[n], c, commit_ok)
    /\ remote_items' = [remote_items EXCEPT ![n] = {}]
    /\ local_synced_serials' = [local_synced_serials EXCEPT ![n] = {}]
    /\ wpc' = [wpc EXCEPT ![n] = "imported"]
    /\ UNCHANGED <<tombstones, imported_count, imported, remoteVars, remote_up,
                   pending_items, archiveVars>>

-----------------------------------------------------------------------------
(* The push and pull-active phases run without another thread in between *)

sync_to_remote(n, failed, outcome) ==
    /\ UNCHANGED calls
    /\ wpc[n] = "idle"
    /\ failed \subseteq {r.id : r \in PendingRows(n)}
    /\ remote_seq + Cardinality(PendingRows(n)) <= MaxRemoteId
    /\ LET items == {PendingItem(r) : r \in PendingRows(n)}
           after == PushResult(n, items, failed, outcome)
       IN /\ local' = [local EXCEPT ![n] = after.local]
          /\ remote' = after.remote
          /\ remote_seq' = after.remote_seq
          /\ ret' = Result("push", n, failed, TRUE,
                           IF items = {} THEN "ok" ELSE PushWhy(failed, outcome))
    /\ wpc' = [wpc EXCEPT ![n] = "pull"]
    /\ UNCHANGED <<local_seq, tombstones, last_pull, imported_count, imported>>
    /\ UNCHANGED <<remote_imported, imported_seq, imported_clock, remote_up>>
    /\ UNCHANGED <<pending_items, remote_items, local_synced_serials, archiveVars>>

sync_from_remote(n, c, commit_ok) ==
    /\ UNCHANGED calls
    /\ wpc[n] = "pull"
    /\ IF remote_up
       THEN PullWrites(n, remote, SyncedSerials(n), c, commit_ok)
       ELSE /\ ret' = Result("pull", n, NULL, TRUE, "unreachable")
            /\ UNCHANGED <<local, local_seq, last_pull>>
    /\ wpc' = [wpc EXCEPT ![n] = "imported"]
    /\ UNCHANGED <<tombstones, imported_count, imported, remoteVars, remote_up,
                   pending_items, remote_items, local_synced_serials, archiveVars>>

-----------------------------------------------------------------------------
(* Background sync: pull-archive phase (_sync_imported_from_remote) *)

\* DELETE FROM imported_inventory, then one INSERT per fetched row; the count
\* is stored under imported_count_<project>.  One local commit covers both,
\* so a fault leaves both as they were.
RefreshImported(n, archive, ok) ==
    IF remote_up /\ ok
    THEN /\ imported_count' = [imported_count EXCEPT ![n] = Cardinality(archive)]
         /\ \E tie \in TieOrders :
               imported' = [imported EXCEPT ![n] = Window(archive, IMPORTED_WINDOW, tie)]
    ELSE UNCHANGED <<imported_count, imported>>

sync_imported_from_remote(n, ok) ==
    /\ UNCHANGED calls
    /\ wpc[n] = "imported"
    /\ RefreshImported(n, remote_imported, ok)
    /\ wpc' = [wpc EXCEPT ![n] = "idle"]
    /\ ret' = Result("pull_imported", n, NULL, TRUE,
                     IF remote_up /\ ok THEN "ok" ELSE "fault")
    /\ UNCHANGED <<local, local_seq, tombstones, last_pull, remoteVars, remote_up,
                   pending_items, remote_items, local_synced_serials, archiveVars>>

-----------------------------------------------------------------------------
(* Export: move_to_imported_cached and the remote move_inventory_to_imported *)

\* The remote archive rows written for the active rows, all stamped with one
\* imported_at; the archive ids follow the order of the active ids.
ArchivedRows(rows) ==
    {[id |-> imported_seq + Cardinality({x \in rows : x.id <= r.id}),
      serial_number |-> r.serial_number, fields |-> r.fields,
      imported_at |-> imported_clock + 1] : r \in rows}

\* A variant of AfterLocalClear that keeps the rows still pending.
AfterLocalClear_synced_only(rows) == {r \in rows : r.sync_status = "pending"}

\* DELETE FROM inventory on the local table.
AfterLocalClear(rows) == {}

\* A variant of ExportedItems that returns the rows the flush marked synced.
ExportedItems_flushed(snapshot, flushed) ==
    {row \in snapshot : \E r \in flushed : r.id = row.id /\ r.sync_status = "synced"}

\* return local_items: the snapshot taken before the flush.
ExportedItems(snapshot, flushed) == snapshot

\* local_items = get_all_inventory_cached(project); an empty cache returns [].
move_to_imported_begin(n) ==
    /\ Call
    /\ apc[n] = "idle"
    /\ IF get_all_inventory_cached(n) = {}
       THEN /\ ret' = Result("archive", n, NULL, {}, "empty")
            /\ UNCHANGED archiveVars
       ELSE /\ local_items' = [local_items EXCEPT ![n] = get_all_inventory_cached(n)]
            /\ apc' = [apc EXCEPT ![n] = "export"]
            /\ ret' = Result("archive_begin", n, NULL, TRUE, "ok")
    /\ UNCHANGED <<localVars, remoteVars, remote_up, workerVars>>

\* _sync_to_remote, move_inventory_to_imported, DELETE FROM inventory and
\* _sync_imported_from_remote.  When the remote move raises, the handler
\* returns [] before the local DELETE; the marks of the flush stay.
move_to_imported_finish(n, failed, outcome, move_ok, refresh_ok) ==
    /\ UNCHANGED calls
    /\ apc[n] = "export"
    /\ failed \subseteq {r.id : r \in PendingRows(n)}
    /\ remote_seq + Cardinality(PendingRows(n)) <= MaxRemoteId
    /\ LET items == {PendingItem(r) : r \in PendingRows(n)}
           flushed == PushResult(n, items, failed, outcome)
       IN /\ remote_seq' = flushed.remote_seq
          /\ IF remote_up /\ move_ok
             THEN /\ remote' = {}
                  /\ remote_imported' = remote_imported \cup ArchivedRows(flushed.remote)
                  /\ imported_seq' = imported_seq + Cardinality(flushed.remote)
                  /\ imported_clock' = IF flushed.remote = {} THEN imported_clock
                                       ELSE imported_clock + 1
                  /\ local' = [local EXCEPT ![n] = AfterLocalClear(flushed.local)]
                  /\ RefreshImported(n, remote_imported', refresh_ok)
                  /\ ret' = Result("archive", n, NULL,
                                   ExportedItems(local_items[n], flushed.local),
                                   IF items = {} \/ PushWhy(failed, outcome) = "ok"
                                   THEN "ok" ELSE "flush_failed")
             ELSE /\ remote' = flushed.remote
                  /\ local' = [local EXCEPT ![n] = flushed.local]
                  /\ ret' = Result("archive", n, NULL, {}, "move_raised")
                  /\ UNCHANGED <<remote_imported, imported_seq, imported_clock,
                                 imported_count, imported>>
    /\ apc' = [apc EXCEPT ![n] = "idle"]
    /\ local_items' = [local_items EXCEPT ![n] = {}]
    /\ UNCHANGED <<local_seq, tombstones, last_pull, remote_up, workerVars>>

\* move_inventory_to_imported run by another node: the rows of the remote
\* active table go to the archive under one imported_at and the active table
\* is cleared; an empty active table returns [] at once.
other_node_moves ==
    /\ UNCHANGED calls
    /\ remote_up
    /\ remote # {}
    /\ remote_imported' = remote_imported \cup ArchivedRows(remote)
    /\ imported_seq' = imported_seq + Cardinality(remote)
    /\ imported_clock' = imported_clock + 1
    /\ remote' = {}
    /\ ret' = Result("other_move", "-", NULL, TRUE, "ok")
    /\ UNCHANGED <<localVars, remote_seq, remote_up, workerVars, archiveVars>>

-----------------------------------------------------------------------------
(* The retry wrapper (with_retry) and the remote move it wraps *)

DB_RETRY_ATTEMPTS == 3

\* What one run of a wrapped operation ends in: a return, an
\* sqlite3.OperationalError, another sqlite3.DatabaseError, or an exception
\* of another class.
AttemptOutcomes == {"returned", "OperationalError", "DatabaseError", "Exception"}

\* A variant of with_retry that retries after an exception of any class.
RECURSIVE with_retry_any_exception(_, _)
with_retry_any_exception(outcomes, attempt) ==
    LET o == outcomes[attempt + 1]
    IN IF o = "returned" THEN [attempts |-> attempt + 1, why |-> "returned"]
       ELSE IF attempt < DB_RETRY_ATTEMPTS - 1
            THEN with_retry_any_exception(outcomes, attempt + 1)
            ELSE [attempts |-> attempt + 1, why |-> o]

\* for attempt in range(DB_RETRY_ATTEMPTS): the run number attempt + 1 of the
\* operation ends in outcomes[attempt + 1].  A return ends the loop; a
\* database error is retried unless the attempt was the last, and raised
\* then; any other exception leaves the wrapper at once.  The result names
\* the number of runs and how the wrapper ended.
RECURSIVE with_retry(_, _)
with_retry(outcomes, attempt) ==
    LET o == outcomes[attempt + 1]
    IN IF o = "returned" THEN [attempts |-> attempt + 1, why |-> "returned"]
       ELSE IF o \in {"OperationalError", "DatabaseError"}
            THEN IF attempt < DB_RETRY_ATTEMPTS - 1
                 THEN with_retry(outcomes, attempt + 1)
                 ELSE [attempts |-> attempt + 1, why |-> o]
       ELSE [attempts |-> attempt + 1, why |-> o]

\* Where a run of move_inventory_to_imported may fail: nowhere; before the
\* commit of the archive (opening a database, reading the active rows,
\* writing the archive rows); at the DELETE of the active table or its
\* commit, after the archive has been committed; or with an exception that
\* is no database error, before anything is written.
MoveFaults == {"none", "archive_fails", "clear_fails", "other_error"}

\* What a run with the fault f ends in on the active rows it finds: a run
\* that finds none returns [] before it could fail at the DELETE.
MoveOutcome(active, f) ==
    CASE f = "none" -> "returned"
      [] f = "archive_fails" -> "OperationalError"
      [] f = "clear_fails" -> IF active = {} THEN "returned" ELSE "DatabaseError"
      [] f = "other_error" -> "Exception"

\* The archive rows one run writes for the active rows, under one imported_at.
ArchivedAs(rows, seq, clock) ==
    {[id |-> seq + Cardinality({x \in rows : x.id <= r.id}),
      serial_number |-> r.serial_number, fields |-> r.fields,
      imported_at |-> clock + 1] : r \in rows}

\* One run of move_inventory_to_imported on the tables t with the fault f: an
\* empty active table returns [] at once; otherwise the rows are inserted
\* into the archive and committed there, then the active table is cleared
\* and committed.
MoveRun(t, f) ==
    IF t.active = {} \/ f \in {"archive_fails", "other_error"} THEN t
    ELSE [active |-> IF f = "clear_fails" THEN t.active ELSE {},
          archive |-> t.archive \cup ArchivedAs(t.active, t.seq, t.clock),
          seq |-> t.seq + Cardinality(t.active),
          clock |-> t.clock + 1]

\* The tables after the runs first..last of the wrapped move.
RECURSIVE MoveRuns(_, _, _, _)
MoveRuns(t, faults, first, last) ==
    IF first > last THEN t
    ELSE MoveRuns(MoveRun(t, faults[first]), faults, first + 1, last)

\* @with_retry move_inventory_to_imported as one call on the drive, its runs
\* failing as faults says.  The active rows are the same in every run that
\* fails.
move_inventory_to_imported(faults) ==
    /\ Call
    /\ remote_up
    /\ LET outcomes == [i \in 1..DB_RETRY_ATTEMPTS |-> MoveOutcome(remote, faults[i])]
           done == with_retry(outcomes, 0)
           after == MoveRuns([active |-> remote, archive |-> remote_imported,
                              seq |-> imported_seq, clock |-> imported_clock],
                             faults, 1, done.attempts)
       IN /\ remote' = after.active
          /\ remote_imported' = after.archive
          /\ imported_seq' = after.seq
          /\ imported_clock' = after.clock
          /\ ret' = Result("move", "-", faults, done.attempts, done.why)
    /\ UNCHANGED <<localVars, remote_seq, remote_up, workerVars, archiveVars>>

-----------------------------------------------------------------------------
(* The thread of the background sync worker (_background_sync_worker) *)

\* for project in ["ecoflow", "halo", "ams_ine"]; the tables of the first
\* are the ones modelled.
Projects == <<"ecoflow", "halo", "ams_ine">>

NoThread == [at |-> "off", project |-> 1]

Alive(n) == wloop[n].at \in {"startup", "cycle", "interval"}

\* The thread is in the for loop at project p.
InCycle(n, p) == wloop[n].at = "cycle" /\ wloop[n].project = p

\* The thread stands at one of the tests of the stop event that precede the
\* phases.
AtCheckpoint(n) == wloop[n].at = "cycle" /\ wpc[n] \in {"idle", "pull", "imported"}

\* A variant of NextPhase that goes from the push to the pull-archive phase.
NextPhase_skips_pull(pc) ==
    CASE pc = "idle" -> "imported"
      [] pc = "pull" -> "imported"
      [] pc = "imported" -> "idle"

\* _sync_to_remote, then _sync_from_remote, then _sync_imported_from_remote;
\* "idle" stands before the push.
NextPhase(pc) ==
    CASE pc = "idle" -> "pull"
      [] pc = "pull" -> "imported"
      [] pc = "imported" -> "idle"

\* What ends a phase early: every one of them is caught inside the phase.
PhaseFaults == {"unreachable", "remote_commit_fails", "local_commit_fails", "fault"}

\* The next project of the for loop, or the wait that follows the last one.
NextProject(w) ==
    IF w.project < Len(Projects) THEN [at |-> "cycle", project |-> w.project + 1]
    ELSE [at |-> "interval", project |-> 1]

\* A variant of AfterPhase in which a fault of a phase ends the thread.
AfterPhase_stops_on_fault(w, pc, why) ==
    IF why \in PhaseFaults THEN [at |-> "stopped", project |-> 1]
    ELSE IF pc = "idle" THEN NextProject(w)
    ELSE w

\* try: <phase> except Exception: pass.  Where the thread w stands when a
\* step of a phase has left the worker at position pc with the result why:
\* at the next project once the last phase has returned, where it was
\* otherwise, whatever the result.
AfterPhase(w, pc, why) ==
    IF pc = "idle" THEN NextProject(w) ELSE w

\* The thread goes on after a step of a phase.
GoesOn(n) ==
    /\ wloop' = [wloop EXCEPT ![n] = AfterPhase(@, wpc'[n], ret'.why)]
    /\ UNCHANGED stop_event

\* A variant of AfterWait that begins a cycle whatever the stop event says.
AfterWait_ignores_stop(stop) == [at |-> "cycle", project |-> 1]

\* _sync_stop_event.wait(t) returns True at once when the event is set and the
\* thread returns (startup delay) or leaves the while loop (interval);
\* otherwise a cycle begins with the first project.
AfterWait(stop) ==
    IF stop THEN [at |-> "stopped", project |-> 1] ELSE [at |-> "cycle", project |-> 1]

\* start_inventory_sync: nothing when the thread is alive; otherwise the stop
\* event is cleared and a new thread begins with the startup delay.
start_inventory_sync(n) ==
    /\ UNCHANGED calls
    /\ IF Alive(n)
       THEN UNCHANGED <<stop_event, wloop>>
       ELSE /\ stop_event' = [stop_event EXCEPT ![n] = FALSE]
            /\ wloop' = [wloop EXCEPT ![n] = [at |-> "startup", project |-> 1]]
    /\ ret' = Result("start", n, NULL, TRUE, IF Alive(n) THEN "alive" ELSE "started")
    /\ UNCHANGED <<localVars, remoteVars, remote_up, workerVars, archiveVars>>

\* stop_inventory_sync: _sync_stop_event.set(); the join returns when the
\* thread does or after its timeout.
stop_inventory_sync(n) ==
    /\ UNCHANGED calls
    /\ stop_event' = [stop_event EXCEPT ![n] = TRUE]
    /\ ret' = Result("stop", n, NULL, TRUE, "ok")
    /\ UNCHANGED <<wloop, localVars, remoteVars, remote_up, workerVars, archiveVars>>

\* if _sync_stop_event.wait(10): return; otherwise the first cycle begins.
startup_wait(n) ==
    /\ UNCHANGED calls
    /\ wloop[n].at = "startup"
    /\ wloop' = [wloop EXCEPT ![n] = AfterWait(stop_event[n])]
    /\ ret' = Result("startup", n, NULL, TRUE, IF stop_event[n] THEN "stopped" ELSE "elapsed")
    /\ UNCHANGED <<stop_event, localVars, remoteVars, remote_up, workerVars, archiveVars>>

\* if _sync_stop_event.is_set(): return, at a test that precedes a phase.
worker_returns(n) ==
    /\ UNCHANGED calls
    /\ AtCheckpoint(n)
    /\ stop_event[n]
    /\ wloop' = [wloop EXCEPT ![n] = [at |-> "stopped", project |-> 1]]
    /\ wpc' = [wpc EXCEPT ![n] = "idle"]
    /\ ret' = Result("return", n, NULL, TRUE, "stopped")
    /\ UNCHANGED <<stop_event, localVars, remoteVars, remote_up, pending_items,
                   remote_items, local_synced_serials, archiveVars>>

\* _sync_stop_event.wait(INVENTORY_CACHE_SYNC_INTERVAL), then the test of the
\* while loop: the wait returns at once when the event is set.
interval_wait(n) ==
    /\ UNCHANGED calls
    /\ wloop[n].at = "interval"
    /\ wloop' = [wloop EXCEPT ![n] = AfterWait(stop_event[n])]
    /\ ret' = Result("interval", n, NULL, TRUE, IF stop_event[n] THEN "stopped" ELSE "elapsed")
    /\ UNCHANGED <<stop_event, localVars, remoteVars, remote_up, workerVars, archiveVars>>

\* The name a phase of a project whose tables are not modelled returns under.
OtherPhaseOp(pc) ==
    CASE pc = "idle" -> "other_push"
      [] pc = "pull" -> "other_pull"
      [] pc = "imported" -> "other_imported"

\* A phase of a project whose tables are not modelled: it runs in its own
\* database files, with or without fault, and returns.
other_project_phase(n, ok) ==
    /\ UNCHANGED calls
    /\ AtCheckpoint(n)
    /\ wloop[n].project > 1
    /\ ~stop_event[n]
    /\ wpc' = [wpc EXCEPT ![n] = NextPhase(wpc[n])]
    /\ ret' = Result(OtherPhaseOp(wpc[n]), n, NULL, TRUE, IF ok THEN "ok" ELSE "fault")
    /\ GoesOn(n)
    /\ UNCHANGED <<localVars, remoteVars, remote_up, pending_items, remote_items,
                   local_synced_serials, archiveVars>>

-----------------------------------------------------------------------------
(* Environment: the shared drive comes and goes *)

remote_goes_down ==
    /\ UNCHANGED calls
    /\ remote_up
    /\ remote_up' = FALSE
    /\ ret' = Result("remote_down", "-", NULL, TRUE, "ok")
    /\ UNCHANGED <<localVars, remoteVars, workerVars, archiveVars>>

remote_comes_up ==
    /\ UNCHANGED calls
    /\ ~remote_up
    /\ remote_up' = TRUE
    /\ ret' = Result("remote_up", "-", NULL, TRUE, "ok")
    /\ UNCHANGED <<localVars, remoteVars, workerVars, archiveVars>>

-----------------------------------------------------------------------------
(* The approved-SKU cache (database/sku_cache) over the approved_skus table *)
(* of the Durable Store (database/db).  One project is modelled.  An entry  *)
(* is carried as its key: id, description and created_at are stored and     *)
(* returned with it and no operation branches on them.  A SKU is a sequence *)
(* of characters.                                                           *)

SkuChars == {" ", "A", "B", "a", "b"}

\* The code point of a character: str comparison is by code point.
Code(c) ==
    CASE c = " " -> 32
      [] c = "A" -> 65
      [] c = "B" -> 66
      [] c = "a" -> 97
      [] c = "b" -> 98

UpperChar(c) ==
    CASE c = "a" -> "A"
      [] c = "b" -> "B"
      [] OTHER -> c

\* str.upper()
upper(s) == [i \in 1..Len(s) |-> UpperChar(s[i])]

\* str.strip()
RECURSIVE strip(_)
strip(s) ==
    IF s = <<>> THEN s
    ELSE IF Head(s) = " " THEN strip(Tail(s))
    ELSE IF s[Len(s)] = " " THEN strip(SubSeq(s, 1, Len(s) - 1))
    ELSE s

\* str.startswith(p)
startswith(s, p) == Len(p) <= Len(s) /\ SubSeq(s, 1, Len(p)) = p

\* s < t on str
Less(s, t) ==
    \E i \in 1..Len(t) :
       /\ i - 1 <= Len(s)
       /\ \A j \in 1..(i - 1) : s[j] = t[j]
       /\ (i = Len(s) + 1 \/ Code(s[i]) < Code(t[i]))

\* sorted(keys), list.sort() and ORDER BY sku
RECURSIVE sorted(_)
sorted(S) ==
    IF S = {} THEN <<>>
    ELSE LET m == CHOOSE x \in S : \A y \in S : x = y \/ Less(x, y)
         IN <<m>> \o sorted(S \ {m})

\* set(list)
Elements(list) == {list[i] : i \in 1..Len(list)}

\* A variant of ListRemove that leaves the list as it is.
ListRemove_keeps(list, x) == list

\* list.remove(x): the first occurrence goes; the caller has checked the map.
ListRemove(list, x) ==
    LET at == CHOOSE i \in 1..Len(list) : list[i] = x /\ \A j \in 1..(i - 1) : list[j] # x
    IN SubSeq(list, 1, at - 1) \o SubSeq(list, at + 1, Len(list))

\* A variant of bisect_left that returns the place after the equal elements
\* (bisect_right).
RECURSIVE bisect_left_right(_, _, _, _)
bisect_left_right(a, x, lo, hi) ==
    IF lo < hi
    THEN LET mid == (lo + hi) \div 2
         IN IF Less(x, a[mid + 1])
            THEN bisect_left_right(a, x, lo, mid)
            ELSE bisect_left_right(a, x, mid + 1, hi)
    ELSE lo

\* bisect.bisect_left(a, x, lo, hi) on a 0-based list: a[mid] is a[mid + 1]
\* of the sequence.
RECURSIVE bisect_left(_, _, _, _)
bisect_left(a, x, lo, hi) ==
    IF lo < hi
    THEN LET mid == (lo + hi) \div 2
         IN IF Less(a[mid + 1], x)
            THEN bisect_left(a, x, mid + 1, hi)
            ELSE bisect_left(a, x, lo, mid)
    ELSE lo

\* The loop of search_skus_cached from index i (0-based) up to stop: it
\* appends the entry of each key that starts with the prefix and ends at the
\* first key that does not, or with limit matches.  A key missing from the map
\* raises KeyError.
RECURSIVE CollectMatches(_, _, _, _, _, _, _)
CollectMatches(list, map, prefix_upper, i, stop, limit, matches) ==
    IF i >= stop \/ i >= Len(list) THEN [raised |-> FALSE, matches |-> matches]
    ELSE IF ~startswith(list[i + 1], prefix_upper) THEN [raised |-> FALSE, matches |-> matches]
    ELSE IF list[i + 1] \notin map THEN [raised |-> TRUE, matches |-> <<>>]
    ELSE IF Len(matches) + 1 >= limit
         THEN [raised |-> FALSE, matches |-> Append(matches, list[i + 1])]
    ELSE CollectMatches(list, map, prefix_upper, i + 1, stop, limit,
                        Append(matches, list[i + 1]))

Min(a, b) == IF a <= b THEN a ELSE b

\* Lines 409-428 of search_skus_cached on the loaded structures.
SearchLoaded(list, map, prefix, limit) ==
    LET prefix_upper == upper(prefix)
        start_idx == bisect_left(list, prefix_upper, 0, Len(list))
    IN CollectMatches(list, map, prefix_upper, start_idx,
                      Min(start_idx + limit * 2, Len(list)), limit, <<>>)

\* What the callers pass.  The keys are the normalised inputs.
SkuInputs == {<<"a">>, <<"A", "a">>, <<"a", "B">>, <<" ", "b">>}
SkuKeys == {upper(strip(raw)) : raw \in SkuInputs}
SkuPrefixes == {<<>>, <<"a">>, <<"A", "b">>, <<"B">>, <<" ">>}
BulkInputs == {<< <<"a">>, <<"A", "a">> >>, << <<" ", "b">>, <<"B">> >>}

\* The threads that run _background_sync_worker: the one that
\* start_background_sync creates, and the one a later call creates.
SkuWorkers == {"worker", "worker2"}

\* The UI thread calls the cache; the others run _background_sync_worker.
SkuThreads == {"ui"} \cup SkuWorkers

NoFrame == [op |-> "-", key |-> <<>>, n |-> 0, resume |-> "-"]
NoData == [alias |-> FALSE, skus |-> {}, version |-> 0]
Current == [alias |-> TRUE, skus |-> {}, version |-> 0]

SkuResult(t, op, val, why) ==
    [thread |-> t, op |-> op, arg |-> <<>>, val |-> val, why |-> why]

SkuCall ==
    /\ sku_calls < MaxSkuCalls
    /\ sku_calls' = sku_calls + 1

\* The dict a thread's cache_data names: _cache[project] itself or an object
\* of its own.
Deref(t) ==
    IF cache_data[t].alias THEN [skus |-> skus, version |-> version]
    ELSE [skus |-> cache_data[t].skus, version |-> cache_data[t].version]

\* _cache[project] = <a new dict> by thread t: t names the new dict, and a
\* thread that named the old one keeps the old one as it is now.
Rebind(t) ==
    [u \in SkuThreads |->
        IF u = t THEN Current
        ELSE IF cache_data[u].alias
             THEN [alias |-> FALSE, skus |-> skus, version |-> version]
             ELSE cache_data[u]]

\* cache_data = _cache[project]
NameCurrent(t) == [cache_data EXCEPT ![t] = Current]

\* Where a call goes on once it holds the lock with the project loaded.
Body(op) ==
    CASE op = "add_sku" -> "add_map"
      [] op = "delete_sku" -> "del_map"
      [] op = "search" -> "search"

\* A variant of AfterStoreWrite that updates the cache whatever the store
\* reported.
AfterStoreWrite_always(success, next) == next

\* if success: ... return success
AfterStoreWrite(success, next) == IF success THEN next ELSE "idle"

storeVars == <<approved_skus>>
mirrorVars == <<sku_cache, cache_version>>
indexVars == <<skus, sku_list, version>>

-----------------------------------------------------------------------------
(* SKU cache: write-through calls *)

\* db.add_sku(sku, description, project): False on the UNIQUE violation; an
\* unreachable store raises out of the retry wrapper.
add_sku_store(t, raw, reachable) ==
    LET key == upper(strip(raw))
        success == key \notin approved_skus
    IN /\ SkuCall
       /\ tpc[t] = "idle"
       /\ IF ~reachable
          THEN /\ sku_ret' = SkuResult(t, "add_sku", FALSE, "raised")
               /\ UNCHANGED <<approved_skus, tpc, frame>>
          ELSE /\ approved_skus' = approved_skus \cup {key}
               /\ tpc' = [tpc EXCEPT ![t] = AfterStoreWrite(success, "enter")]
               /\ frame' = [frame EXCEPT ![t] =
                     IF AfterStoreWrite(success, "enter") = "idle" THEN NoFrame
                     ELSE [op |-> "add_sku", key |-> key, n |-> 0, resume |-> "-"]]
               /\ sku_ret' = SkuResult(t, "add_sku", success,
                                       IF success THEN "stored" ELSE "rejected")
       /\ UNCHANGED <<mirrorVars, indexVars, cache_lock, cache_data, remote_skus, saving>>

\* _cache[project]['skus'][sku_upper] = sku_data
add_map(t) ==
    /\ UNCHANGED sku_calls
    /\ tpc[t] = "add_map"
    /\ skus' = skus \cup {frame[t].key}
    /\ tpc' = [tpc EXCEPT ![t] = "add_list"]
    /\ sku_ret' = SkuResult(t, "add_sku", TRUE, "map")
    /\ UNCHANGED <<storeVars, mirrorVars, sku_list, version, cache_lock, frame,
                   cache_data, remote_skus, saving>>

\* sku_list = sorted(keys); version += 1; cache_data = _cache[project]; the
\* with block ends.
add_list(t) ==
    /\ UNCHANGED sku_calls
    /\ tpc[t] = "add_list"
    /\ sku_list' = sorted(skus)
    /\ version' = version + 1
    /\ cache_data' = NameCurrent(t)
    /\ cache_lock' = "free"
    /\ tpc' = [tpc EXCEPT ![t] = "save"]
    /\ sku_ret' = SkuResult(t, "add_sku", TRUE, "list")
    /\ UNCHANGED <<storeVars, mirrorVars, skus, frame, remote_skus, saving>>

\* db.delete_sku(sku, project): WHERE sku = sku.upper(); affected > 0.
delete_sku_store(t, raw, reachable) ==
    LET key == upper(raw)
        success == key \in approved_skus
    IN /\ SkuCall
       /\ tpc[t] = "idle"
       /\ IF ~reachable
          THEN /\ sku_ret' = SkuResult(t, "delete_sku", FALSE, "raised")
               /\ UNCHANGED <<approved_skus, tpc, frame>>
          ELSE /\ approved_skus' = approved_skus \ {key}
               /\ tpc' = [tpc EXCEPT ![t] = AfterStoreWrite(success, "enter")]
               /\ frame' = [frame EXCEPT ![t] =
                     IF AfterStoreWrite(success, "enter") = "idle" THEN NoFrame
                     ELSE [op |-> "delete_sku", key |-> key, n |-> 0, resume |-> "-"]]
               /\ sku_ret' = SkuResult(t, "delete_sku", success,
                                       IF success THEN "stored" ELSE "rejected")
       /\ UNCHANGED <<mirrorVars, indexVars, cache_lock, cache_data, remote_skus, saving>>

\* if sku_upper in skus: del skus[sku_upper]; without the key the with block
\* ends here.
del_map(t) ==
    /\ UNCHANGED sku_calls
    /\ tpc[t] = "del_map"
    /\ IF frame[t].key \in skus
       THEN /\ skus' = skus \ {frame[t].key}
            /\ tpc' = [tpc EXCEPT ![t] = "del_list"]
            /\ UNCHANGED <<cache_lock, cache_data>>
       ELSE /\ cache_data' = NameCurrent(t)
            /\ cache_lock' = "free"
            /\ tpc' = [tpc EXCEPT ![t] = "save"]
            /\ UNCHANGED skus
    /\ sku_ret' = SkuResult(t, "delete_sku", TRUE, "map")
    /\ UNCHANGED <<storeVars, mirrorVars, sku_list, version, frame, remote_skus, saving>>

\* sku_list.remove(sku_upper); version += 1; cache_data = _cache[project].
\* list.remove raises ValueError for a value the list lacks, which ends the
\* call with the lock released.
del_list(t) ==
    /\ UNCHANGED sku_calls
    /\ tpc[t] = "del_list"
    /\ IF frame[t].key \in Elements(sku_list)
       THEN /\ sku_list' = ListRemove(sku_list, frame[t].key)
            /\ version' = version + 1
            /\ cache_data' = NameCurrent(t)
            /\ tpc' = [tpc EXCEPT ![t] = "save"]
            /\ sku_ret' = SkuResult(t, "delete_sku", TRUE, "list")
            /\ UNCHANGED frame
       ELSE /\ tpc' = [tpc EXCEPT ![t] = "idle"]
            /\ frame' = [frame EXCEPT ![t] = NoFrame]
            /\ sku_ret' = SkuResult(t, "delete_sku", FALSE, "value_error")
            /\ UNCHANGED <<sku_list, version, cache_data>>
    /\ cache_lock' = "free"
    /\ UNCHANGED <<storeVars, mirrorVars, skus, remote_skus, saving>>

\* db.clear_all_skus(project): the number of rows deleted.
clear_all_skus_store(t, reachable) ==
    LET deleted_count == Cardinality(approved_skus)
    IN /\ SkuCall
       /\ tpc[t] = "idle"
       /\ IF ~reachable
          THEN /\ sku_ret' = SkuResult(t, "clear_all_skus", 0, "raised")
               /\ UNCHANGED <<approved_skus, tpc, frame>>
          ELSE /\ approved_skus' = {}
               /\ tpc' = [tpc EXCEPT ![t] = AfterStoreWrite(deleted_count > 0, "clear_assign")]
               /\ frame' = [frame EXCEPT ![t] =
                     IF AfterStoreWrite(deleted_count > 0, "clear_assign") = "idle" THEN NoFrame
                     ELSE [op |-> "clear_all_skus", key |-> <<>>, n |-> deleted_count,
                           resume |-> "-"]]
               /\ sku_ret' = SkuResult(t, "clear_all_skus", deleted_count,
                                       IF deleted_count > 0 THEN "stored" ELSE "rejected")
       /\ UNCHANGED <<mirrorVars, indexVars, cache_lock, cache_data, remote_skus, saving>>

\* with _cache_lock: _cache[project] = {empty structures, version + 1};
\* cache_data = _cache[project]
clear_assign(t) ==
    /\ UNCHANGED sku_calls
    /\ tpc[t] = "clear_assign"
    /\ cache_lock = "free"
    /\ skus' = {}
    /\ sku_list' = <<>>
    /\ version' = version + 1
    /\ cache_data' = Rebind(t)
    /\ tpc' = [tpc EXCEPT ![t] = "save"]
    /\ sku_ret' = SkuResult(t, "clear_all_skus", frame[t].n, "assign")
    /\ UNCHANGED <<storeVars, mirrorVars, cache_lock, frame, remote_skus, saving>>

\* The keys a batch names.
BulkKeys(raws) == {upper(strip(raws[i])) : i \in 1..Len(raws)}

\* A variant of add_skus_bulk that leaves the loop at the first row the
\* table rejects.
RECURSIVE add_skus_bulk_aborting(_, _, _, _, _)
add_skus_bulk_aborting(table, raws, i, success, failed) ==
    IF i > Len(raws)
    THEN [table |-> table, success |-> success, failed |-> failed]
    ELSE IF upper(strip(raws[i])) \in table
         THEN [table |-> table, success |-> success, failed |-> failed + 1]
         ELSE add_skus_bulk_aborting(table \cup {upper(strip(raws[i]))}, raws, i + 1,
                                     success + 1, failed)

\* db.add_skus_bulk: for sku, description in skus: INSERT, success += 1;
\* except sqlite3.IntegrityError: failed += 1; then one commit.
RECURSIVE add_skus_bulk(_, _, _, _, _)
add_skus_bulk(table, raws, i, success, failed) ==
    IF i > Len(raws)
    THEN [table |-> table, success |-> success, failed |-> failed]
    ELSE IF upper(strip(raws[i])) \in table
         THEN add_skus_bulk(table, raws, i + 1, success, failed + 1)
         ELSE add_skus_bulk(table \cup {upper(strip(raws[i]))}, raws, i + 1,
                            success + 1, failed)

\* db.add_skus_bulk(skus, project), then a full refresh when a row went in.
add_skus_bulk_store(t, raws, reachable) ==
    LET done == add_skus_bulk(approved_skus, raws, 1, 0, 0)
        success_count == done.success
        failed_count == done.failed
    IN /\ SkuCall
       /\ tpc[t] = "idle"
       /\ IF ~reachable
          THEN /\ sku_ret' = SkuResult(t, "add_skus_bulk", <<0, 0>>, "raised")
               /\ UNCHANGED <<approved_skus, tpc, frame>>
          ELSE /\ approved_skus' = done.table
               /\ tpc' = [tpc EXCEPT ![t] = AfterStoreWrite(success_count > 0, "sync_fetch")]
               /\ frame' = [frame EXCEPT ![t] =
                     IF AfterStoreWrite(success_count > 0, "sync_fetch") = "idle" THEN NoFrame
                     ELSE [op |-> "add_skus_bulk", key |-> <<>>, n |-> success_count,
                           resume |-> "idle"]]
               /\ sku_ret' = [SkuResult(t, "add_skus_bulk", <<success_count, failed_count>>,
                                        IF success_count > 0 THEN "stored" ELSE "rejected")
                              EXCEPT !.arg = raws]
       /\ UNCHANGED <<mirrorVars, indexVars, cache_lock, cache_data, remote_skus, saving>>

-----------------------------------------------------------------------------
(* SKU cache: lazy loading, the search, the resync and the local mirror *)

\* with _cache_lock: if not _cache[project]['skus']: _load_or_sync_project.
\* A loaded project goes on under the lock.  An empty one is loaded from the
\* local mirror when that has rows; otherwise the lock is released for a
\* resync from the store and taken again afterwards.
enter(t) ==
    /\ UNCHANGED sku_calls
    /\ tpc[t] = "enter"
    /\ cache_lock = "free"
    /\ IF skus # {}
       THEN /\ cache_lock' = t
            /\ tpc' = [tpc EXCEPT ![t] = Body(frame[t].op)]
            /\ sku_ret' = SkuResult(t, frame[t].op, TRUE, "loaded")
            /\ UNCHANGED <<indexVars, cache_data, frame>>
       ELSE IF sku_cache # {}
       THEN /\ skus' = sku_cache
            /\ sku_list' = sorted(sku_cache)
            /\ version' = cache_version
            /\ cache_data' = [Rebind(t) EXCEPT ![t] = cache_data[t]]
            /\ cache_lock' = t
            /\ tpc' = [tpc EXCEPT ![t] = Body(frame[t].op)]
            /\ sku_ret' = SkuResult(t, frame[t].op, TRUE, "load_local")
            /\ UNCHANGED frame
       ELSE /\ tpc' = [tpc EXCEPT ![t] = "sync_fetch"]
            /\ frame' = [frame EXCEPT ![t].resume = "reenter"]
            /\ sku_ret' = SkuResult(t, frame[t].op, TRUE, "load_remote")
            /\ UNCHANGED <<indexVars, cache_data, cache_lock>>
    /\ UNCHANGED <<storeVars, mirrorVars, remote_skus, saving>>

\* finally: _cache_lock.acquire()
reenter(t) ==
    /\ UNCHANGED sku_calls
    /\ tpc[t] = "reenter"
    /\ cache_lock = "free"
    /\ cache_lock' = t
    /\ tpc' = [tpc EXCEPT ![t] = Body(frame[t].op)]
    /\ sku_ret' = SkuResult(t, frame[t].op, TRUE, "reenter")
    /\ UNCHANGED <<storeVars, mirrorVars, indexVars, frame, cache_data, remote_skus, saving>>

\* What is_valid_sku_cached(sku) answers when it runs now, alone: whether
\* sku.strip().upper() is a key of the map, which the call loads first when
\* it is empty, from the local mirror when that has rows and from the store
\* otherwise.
is_valid_sku_cached(raw) ==
    LET loaded == IF skus # {} THEN skus
                  ELSE IF sku_cache # {} THEN sku_cache
                  ELSE approved_skus
    IN upper(strip(raw)) \in loaded

search_skus_cached(t, prefix, limit) ==
    /\ SkuCall
    /\ tpc[t] = "idle"
    /\ tpc' = [tpc EXCEPT ![t] = "enter"]
    /\ frame' = [frame EXCEPT ![t] =
          [op |-> "search", key |-> prefix, n |-> limit, resume |-> "-"]]
    /\ sku_ret' = SkuResult(t, "search", <<>>, "call")
    /\ UNCHANGED <<storeVars, mirrorVars, indexVars, cache_lock, cache_data,
                   remote_skus, saving>>

\* The search proper, under the lock, and the return.
search(t) ==
    /\ UNCHANGED sku_calls
    /\ tpc[t] = "search"
    /\ LET found == SearchLoaded(sku_list, skus, frame[t].key, frame[t].n)
       IN sku_ret' = [SkuResult(t, "search", found.matches,
                                IF found.raised THEN "raised" ELSE "ok")
                      EXCEPT !.arg = <<frame[t].key, frame[t].n>>]
    /\ cache_lock' = "free"
    /\ tpc' = [tpc EXCEPT ![t] = "idle"]
    /\ frame' = [frame EXCEPT ![t] = NoFrame]
    /\ UNCHANGED <<storeVars, mirrorVars, indexVars, cache_data, remote_skus, saving>>

\* Where sync_project_from_remote returns to; "-" outside it.
Resume(t) == frame[t].resume

\* The frame after sync_project_from_remote has returned.
Returned(t) == IF Resume(t) = "idle" THEN NoFrame ELSE [frame[t] EXCEPT !.resume = "-"]

\* remote_skus = db.get_all_skus(project); a fault returns False.
sync_fetch(t, reachable) ==
    /\ UNCHANGED sku_calls
    /\ tpc[t] = "sync_fetch"
    /\ IF reachable
       THEN /\ remote_skus' = [remote_skus EXCEPT ![t] = approved_skus]
            /\ tpc' = [tpc EXCEPT ![t] = "sync_build"]
            /\ sku_ret' = SkuResult(t, "sync", TRUE, "fetch")
            /\ UNCHANGED frame
       ELSE /\ tpc' = [tpc EXCEPT ![t] = Resume(t)]
            /\ frame' = [frame EXCEPT ![t] = Returned(t)]
            /\ sku_ret' = SkuResult(t, "sync", FALSE, "raised")
            /\ UNCHANGED remote_skus
    /\ UNCHANGED <<storeVars, mirrorVars, indexVars, cache_lock, cache_data, saving>>

\* cache_data = {skus, sku_list, version: the version held now + 1}, built
\* without the lock.
sync_build(t) ==
    /\ UNCHANGED sku_calls
    /\ tpc[t] = "sync_build"
    /\ cache_data' = [cache_data EXCEPT ![t] =
          [alias |-> FALSE, skus |-> remote_skus[t], version |-> version + 1]]
    /\ remote_skus' = [remote_skus EXCEPT ![t] = {}]
    /\ tpc' = [tpc EXCEPT ![t] = "sync_assign"]
    /\ sku_ret' = SkuResult(t, "sync", TRUE, "build")
    /\ UNCHANGED <<storeVars, mirrorVars, indexVars, cache_lock, frame, saving>>

\* with _cache_lock: _cache[project] = cache_data
sync_assign(t) ==
    /\ UNCHANGED sku_calls
    /\ tpc[t] = "sync_assign"
    /\ cache_lock = "free"
    /\ skus' = cache_data[t].skus
    /\ sku_list' = sorted(cache_data[t].skus)
    /\ version' = cache_data[t].version
    /\ cache_data' = Rebind(t)
    /\ tpc' = [tpc EXCEPT ![t] = "save"]
    /\ sku_ret' = SkuResult(t, "sync", TRUE, "assign")
    /\ UNCHANGED <<storeVars, mirrorVars, cache_lock, frame, remote_skus, saving>>

\* save_project_to_local begins: DELETE FROM sku_cache takes the write lock
\* of the mirror, and the loop starts over cache_data['skus'].
save_begin(t) ==
    /\ UNCHANGED sku_calls
    /\ tpc[t] = "save"
    /\ \A u \in SkuThreads : tpc[u] # "save_commit"
    /\ saving' = [saving EXCEPT ![t] = Deref(t)]
    /\ tpc' = [tpc EXCEPT ![t] = "save_commit"]
    /\ sku_ret' = SkuResult(t, "save", TRUE, "begin")
    /\ UNCHANGED <<storeVars, mirrorVars, indexVars, cache_lock, frame, cache_data,
                   remote_skus>>

\* The rows and the version a finished save leaves.
Saved(t) ==
    IF Deref(t).skus = saving[t].skus
    THEN [rows |-> saving[t].skus, version |-> Deref(t).version]
    ELSE [rows |-> sku_cache, version |-> cache_version]

\* save_project_to_local ends, and with it the call.  A dict that changed
\* while the loop ran raises RuntimeError, which the handler answers with a
\* rollback; otherwise the rows and the version are committed.
save_commit(t) ==
    /\ UNCHANGED sku_calls
    /\ tpc[t] = "save_commit"
    /\ sku_cache' = Saved(t).rows
    /\ cache_version' = Saved(t).version
    /\ saving' = [saving EXCEPT ![t] = NoData]
    /\ cache_data' = [cache_data EXCEPT ![t] = NoData]
    /\ IF Resume(t) = "-"
       THEN /\ tpc' = [tpc EXCEPT ![t] = "idle"]
            /\ frame' = [frame EXCEPT ![t] = NoFrame]
       ELSE /\ tpc' = [tpc EXCEPT ![t] = Resume(t)]
            /\ frame' = [frame EXCEPT ![t] = Returned(t)]
    /\ sku_ret' = SkuResult(t, IF Resume(t) = "-" THEN frame[t].op ELSE "sync", TRUE,
                            IF Deref(t).skus = saving[t].skus THEN "saved" ELSE "rollback")
    /\ UNCHANGED <<storeVars, indexVars, cache_lock, remote_skus>>

\* has_remote_changes, first half: remote_count = db.get_sku_count(project);
\* a fault answers False and nothing is synced.
probe_remote(t, reachable) ==
    /\ UNCHANGED sku_calls
    /\ tpc[t] = "idle"
    /\ IF reachable
       THEN /\ tpc' = [tpc EXCEPT ![t] = "probe_local"]
            /\ frame' = [frame EXCEPT ![t] =
                  [op |-> "sync", key |-> <<>>, n |-> Cardinality(approved_skus),
                   resume |-> "idle"]]
            /\ sku_ret' = SkuResult(t, "probe", TRUE, "count")
       ELSE /\ sku_ret' = SkuResult(t, "probe", FALSE, "raised")
            /\ UNCHANGED <<tpc, frame>>
    /\ UNCHANGED <<storeVars, mirrorVars, indexVars, cache_lock, cache_data,
                   remote_skus, saving>>

\* has_remote_changes, second half: with _cache_lock: local_count =
\* len(skus); the worker syncs when the counts differ.
probe_local(t) ==
    /\ UNCHANGED sku_calls
    /\ tpc[t] = "probe_local"
    /\ cache_lock = "free"
    /\ IF frame[t].n # Cardinality(skus)
       THEN /\ tpc' = [tpc EXCEPT ![t] = "sync_fetch"]
            /\ UNCHANGED frame
       ELSE /\ tpc' = [tpc EXCEPT ![t] = "idle"]
            /\ frame' = [frame EXCEPT ![t] = NoFrame]
    /\ sku_ret' = SkuResult(t, "probe", frame[t].n # Cardinality(skus), "compared")
    /\ UNCHANGED <<storeVars, mirrorVars, indexVars, cache_lock, cache_data,
                   remote_skus, saving>>

\* Another node writes the shared store: db.add_sku or db.delete_sku of one
\* key, run by a process that has its own cache.
other_node_writes(key, present) ==
    /\ SkuCall
    /\ approved_skus' = IF present THEN approved_skus \cup {key}
                        ELSE approved_skus \ {key}
    /\ approved_skus' # approved_skus
    /\ sku_ret' = SkuResult("-", "other_node", TRUE, IF present THEN "added" ELSE "deleted")
    /\ UNCHANGED <<mirrorVars, indexVars, cache_lock, tpc, frame, cache_data,
                   remote_skus, saving>>

\* The thread t of the SKU worker has been started and has not returned.
SkuAlive(t) == sku_loop[t].at \in {"test", "wait", "cycle"}

\* _sync_thread and _sync_thread.is_alive()
SkuRunning == sku_sync_thread # "none" /\ SkuAlive(sku_sync_thread)

\* The thread t is inside has_remote_changes or sync_project_from_remote.
SkuInCall(t) == sku_loop[t].at = "cycle" /\ tpc[t] # "idle"

\* The thread t is in the for loop at project p.
SkuAtProject(t, p) == sku_loop[t].at = "cycle" /\ sku_loop[t].project = p

\* The thread start_background_sync creates: the first one not created yet.
NewThread == IF sku_loop["worker"].at = "off" THEN "worker" ELSE "worker2"

\* for project in ['ecoflow', 'halo']
SkuProjects == <<"ecoflow", "halo">>

\* The next project of the for loop, or the test of the while loop that
\* follows the last one.
SkuNextProject(w) ==
    IF w.project < Len(SkuProjects) THEN [at |-> "cycle", project |-> w.project + 1]
    ELSE [at |-> "test", project |-> 1]

\* start_background_sync: a warning when the thread _sync_thread names is
\* alive; otherwise the stop event is cleared and a new thread starts at the
\* test of its while loop.
start_background_sync ==
    /\ UNCHANGED sku_calls
    /\ IF SkuRunning
       THEN /\ UNCHANGED skuLoopVars
            /\ sku_ret' = SkuResult("ui", "start_sync", FALSE, "alive")
       ELSE /\ sku_loop[NewThread].at = "off"
            /\ sku_stop_event' = FALSE
            /\ sku_sync_thread' = NewThread
            /\ sku_loop' = [sku_loop EXCEPT ![NewThread] = [at |-> "test", project |-> 1]]
            /\ sku_ret' = SkuResult("ui", "start_sync", TRUE, "started")
    /\ UNCHANGED <<storeVars, mirrorVars, indexVars, cache_lock, tpc, frame, cache_data,
                   remote_skus, saving>>

\* stop_background_sync: nothing when no thread is named or the thread has
\* returned; otherwise _sync_stop_event.set(), _sync_thread.join(timeout=5)
\* and _sync_thread = None.  A thread that is in the wait or at a test of
\* the event returns within the join; the join times out on a thread that is
\* inside a call to the store, and leaves it alive.
stop_background_sync ==
    /\ UNCHANGED sku_calls
    /\ IF ~SkuRunning
       THEN /\ UNCHANGED skuLoopVars
            /\ sku_ret' = SkuResult("ui", "stop_sync", FALSE, "idle")
       ELSE /\ sku_stop_event' = TRUE
            /\ sku_sync_thread' = "none"
            /\ sku_loop' = IF SkuInCall(sku_sync_thread) THEN sku_loop
                           ELSE [sku_loop EXCEPT ![sku_sync_thread] =
                                    [at |-> "stopped", project |-> 1]]
            /\ sku_ret' = SkuResult("ui", "stop_sync", TRUE,
                                    IF SkuInCall(sku_sync_thread) THEN "timeout" ELSE "joined")
    /\ UNCHANGED <<storeVars, mirrorVars, indexVars, cache_lock, tpc, frame, cache_data,
                   remote_skus, saving>>

\* while not _sync_stop_event.is_set(): the thread returns when the event is
\* set and goes to the wait otherwise.
sku_loop_test(t) ==
    /\ UNCHANGED sku_calls
    /\ sku_loop[t].at = "test"
    /\ sku_loop' = [sku_loop EXCEPT ![t] =
          IF sku_stop_event THEN [at |-> "stopped", project |-> 1]
          ELSE [at |-> "wait", project |-> 1]]
    /\ sku_ret' = SkuResult(t, "loop_test", TRUE, IF sku_stop_event THEN "stopped" ELSE "goes_on")
    /\ UNCHANGED <<sku_stop_event, sku_sync_thread>>
    /\ UNCHANGED <<storeVars, mirrorVars, indexVars, cache_lock, tpc, frame, cache_data,
                   remote_skus, saving>>

\* if _sync_stop_event.wait(_sync_interval): break, which ends the thread;
\* otherwise the for loop begins with the first project.
sku_loop_wait(t) ==
    /\ UNCHANGED sku_calls
    /\ sku_loop[t].at = "wait"
    /\ sku_loop' = [sku_loop EXCEPT ![t] =
          IF sku_stop_event THEN [at |-> "stopped", project |-> 1]
          ELSE [at |-> "cycle", project |-> 1]]
    /\ sku_ret' = SkuResult(t, "loop_wait", TRUE, IF sku_stop_event THEN "stopped" ELSE "elapsed")
    /\ UNCHANGED <<sku_stop_event, sku_sync_thread>>
    /\ UNCHANGED <<storeVars, mirrorVars, indexVars, cache_lock, tpc, frame, cache_data,
                   remote_skus, saving>>

\* for project in [...]: if _sync_stop_event.is_set(): break, which leads to
\* the test of the while loop.
sku_loop_break(t) ==
    /\ UNCHANGED sku_calls
    /\ sku_loop[t].at = "cycle"
    /\ tpc[t] = "idle"
    /\ sku_stop_event
    /\ sku_loop' = [sku_loop EXCEPT ![t] = [at |-> "test", project |-> 1]]
    /\ sku_ret' = SkuResult(t, "loop_break", TRUE, "stopped")
    /\ UNCHANGED <<sku_stop_event, sku_sync_thread>>
    /\ UNCHANGED <<storeVars, mirrorVars, indexVars, cache_lock, tpc, frame, cache_data,
                   remote_skus, saving>>

\* has_remote_changes and sync_project_from_remote of a project whose store
\* and mirror are not modelled: they run on their own rows and return.
other_project_sync(t) ==
    /\ UNCHANGED sku_calls
    /\ sku_loop[t].at = "cycle"
    /\ sku_loop[t].project > 1
    /\ ~sku_stop_event
    /\ sku_loop' = [sku_loop EXCEPT ![t] = SkuNextProject(@)]
    /\ sku_ret' = SkuResult(t, "other_sync", TRUE, "ok")
    /\ UNCHANGED <<sku_stop_event, sku_sync_thread>>
    /\ UNCHANGED <<storeVars, mirrorVars, indexVars, cache_lock, tpc, frame, cache_data,
                   remote_skus, saving>>

\* The thread t goes on after a step of has_remote_changes or of
\* sync_project_from_remote: to the next project once the call has returned.
SkuGoesOn(t) ==
    /\ sku_loop' = [sku_loop EXCEPT ![t] = IF tpc'[t] = "idle" THEN SkuNextProject(@) ELSE @]
    /\ UNCHANGED <<sku_stop_event, sku_sync_thread>>

\* No worker thread has been started.
LoopConstruction ==
    /\ stop_event = [n \in Nodes |-> FALSE]
    /\ wloop = [n \in Nodes |-> NoThread]
    /\ sku_stop_event = FALSE
    /\ sku_sync_thread = "none"
    /\ sku_loop = [t \in SkuWorkers |-> NoThread]

\* init_sku_cache: empty structures, version 0; no thread is in a call.
SkuThreadsIdle ==
    /\ skus = {}
    /\ sku_list = <<>>
    /\ version = 0
    /\ cache_lock = "free"
    /\ tpc = [t \in SkuThreads |-> "idle"]
    /\ frame = [t \in SkuThreads |-> NoFrame]
    /\ cache_data = [t \in SkuThreads |-> NoData]
    /\ remote_skus = [t \in SkuThreads |-> {}]
    /\ saving = [t \in SkuThreads |-> NoData]
    /\ sku_ret = SkuResult("-", "init", TRUE, "ok")
    /\ sku_calls = 0

\* A fresh installation: no approved SKU, no mirror.
SkuConstruction ==
    /\ approved_skus = {}
    /\ sku_cache = {}
    /\ cache_version = 0
    /\ SkuThreadsIdle

\* The application starts on a store that holds no approved SKU or one, the
\* mirror empty or as an earlier run saved it.
SkuStart ==
    /\ approved_skus \in {{}, {<<"A">>}}
    /\ sku_cache \in {{}, approved_skus}
    /\ cache_version = 0
    /\ SkuThreadsIdle

\* The application starts on a store that holds any approved SKUs, the mirror
\* empty or as an earlier run saved it.
SearchStart ==
    /\ approved_skus \in SUBSET SkuKeys
    /\ sku_cache \in {{}, approved_skus}
    /\ cache_version = 0
    /\ SkuThreadsIdle

invVars == <<coreVars, nodeHistory, clusterHistory, loopVars>>

\* What the threads of the SKU worker leave alone.
inventoryVars == <<coreVars, nodeHistory, clusterHistory, stop_event, wloop>>

\* The write-through calls.
SkuMutations == {"add_sku", "delete_sku", "add_skus_bulk", "clear_all_skus"}

\* The keys for which add_sku_cached has returned True and that no
\* delete_sku_cached or clear_all_skus_cached has removed since.  The add
\* returns with the end of its save; a removal counts from its write to the
\* store.
AddedSkus ==
    LET t == sku_ret'.thread
    IN IF sku_ret'.op = "add_sku" /\ sku_ret'.why \in {"saved", "rollback"}
       THEN added_skus \cup {frame[t].key}
       ELSE IF sku_ret'.op = "delete_sku" /\ sku_ret'.why = "stored"
       THEN added_skus \ {frame'[t].key}
       ELSE IF sku_ret'.op = "clear_all_skus" /\ sku_ret'.why = "stored"
       THEN {}
       ELSE added_skus

\* History of the SKU cache, read off the step just taken (sku_ret').
SkuHistory ==
    /\ store_ok' = [t \in SkuThreads |->
          IF sku_ret'.thread = t /\ sku_ret'.op \in SkuMutations
          THEN IF sku_ret'.why = "stored" THEN TRUE
               ELSE IF sku_ret'.why \in {"rejected", "raised"} THEN FALSE
               ELSE store_ok[t]
          ELSE store_ok[t]]
    /\ completed' = (completed \/ sku_ret'.why \in {"saved", "rollback"})
    /\ cleared' =
          IF sku_ret'.op = "clear_all_skus" /\ sku_ret'.why \in {"saved", "rollback"}
          THEN TRUE
          ELSE IF sku_ret'.why \in {"stored", "added", "deleted"} THEN FALSE
          ELSE cleared
    /\ added_skus' = AddedSkus

SkuHistoryInit ==
    /\ store_ok = [t \in SkuThreads |-> FALSE]
    /\ completed = FALSE
    /\ cleared = FALSE
    /\ added_skus = {}

\* The calls of the UI thread t.
SkuFacade(t) ==
    \/ \E raw \in SkuInputs, ok \in BOOLEAN :
           add_sku_store(t, raw, ok) /\ SkuHistory /\ UNCHANGED invVars
    \/ \E raw \in SkuInputs, ok \in BOOLEAN :
           delete_sku_store(t, raw, ok) /\ SkuHistory /\ UNCHANGED invVars
    \/ \E ok \in BOOLEAN : clear_all_skus_store(t, ok) /\ SkuHistory /\ UNCHANGED invVars
    \/ \E raws \in BulkInputs, ok \in BOOLEAN :
           add_skus_bulk_store(t, raws, ok) /\ SkuHistory /\ UNCHANGED invVars

\* The statements of a write-through call that thread t is in.
SkuWriteSteps(t) ==
    \/ add_map(t) /\ SkuHistory /\ UNCHANGED invVars
    \/ add_list(t) /\ SkuHistory /\ UNCHANGED invVars
    \/ del_map(t) /\ SkuHistory /\ UNCHANGED invVars
    \/ del_list(t) /\ SkuHistory /\ UNCHANGED invVars
    \/ clear_assign(t) /\ SkuHistory /\ UNCHANGED invVars

\* The searches of the UI thread t.
SkuSearch(t) ==
    \/ \E prefix \in SkuPrefixes, limit \in 1..MaxLimit :
           search_skus_cached(t, prefix, limit) /\ SkuHistory /\ UNCHANGED invVars
    \/ search(t) /\ SkuHistory /\ UNCHANGED invVars

\* Thread t takes the lock, loads the project, resyncs it or saves it.
SkuLoadSteps(t) ==
    \/ enter(t) /\ SkuHistory /\ UNCHANGED invVars
    \/ reenter(t) /\ SkuHistory /\ UNCHANGED invVars
    \/ \E ok \in BOOLEAN : sync_fetch(t, ok) /\ SkuHistory /\ UNCHANGED invVars
    \/ sync_build(t) /\ SkuHistory /\ UNCHANGED invVars
    \/ sync_assign(t) /\ SkuHistory /\ UNCHANGED invVars
    \/ save_begin(t) /\ SkuHistory /\ UNCHANGED invVars
    \/ save_commit(t) /\ SkuHistory /\ UNCHANGED invVars

\* The staleness probe of the background worker t.
SkuProbe(t) ==
    \/ \E ok \in BOOLEAN : probe_remote(t, ok) /\ SkuHistory /\ UNCHANGED invVars
    \/ probe_local(t) /\ SkuHistory /\ UNCHANGED invVars

\* The writes of the other nodes.
SkuOtherNodes ==
    \E key \in SkuKeys, present \in BOOLEAN :
        other_node_writes(key, present) /\ SkuHistory /\ UNCHANGED invVars

\* One pass of the background worker t over the project with the store
\* reachable: the probe and, when the counts differ, the resync.
SkuWorkerReachable(t) ==
    \/ probe_remote(t, TRUE) /\ SkuHistory /\ UNCHANGED invVars
    \/ probe_local(t) /\ SkuHistory /\ UNCHANGED invVars
    \/ sync_fetch(t, TRUE) /\ SkuHistory /\ UNCHANGED invVars
    \/ sync_build(t) /\ SkuHistory /\ UNCHANGED invVars
    \/ sync_assign(t) /\ SkuHistory /\ UNCHANGED invVars
    \/ save_begin(t) /\ SkuHistory /\ UNCHANGED invVars
    \/ save_commit(t) /\ SkuHistory /\ UNCHANGED invVars

\* The application starts and stops the background worker of the SKU cache.
SkuStartStop ==
    \/ start_background_sync /\ SkuHistory /\ UNCHANGED inventoryVars
    \/ stop_background_sync /\ SkuHistory /\ UNCHANGED inventoryVars

\* The thread t of _background_sync_worker: the test of the while loop, the
\* wait, the for loop over the projects with a test of the stop event before
\* each; the probe and the resync of the first project run statement by
\* statement.
SkuWorkerLoop(t) ==
    \/ sku_loop_test(t) /\ SkuHistory /\ UNCHANGED inventoryVars
    \/ sku_loop_wait(t) /\ SkuHistory /\ UNCHANGED inventoryVars
    \/ sku_loop_break(t) /\ SkuHistory /\ UNCHANGED inventoryVars
    \/ other_project_sync(t) /\ SkuHistory /\ UNCHANGED inventoryVars
    \/ /\ SkuAtProject(t, 1) /\ ~sku_stop_event
       /\ \E ok \in BOOLEAN : probe_remote(t, ok)
       /\ SkuGoesOn(t)
       /\ SkuHistory /\ UNCHANGED inventoryVars
    \/ SkuAtProject(t, 1) /\ probe_local(t) /\ SkuGoesOn(t) /\ SkuHistory /\ UNCHANGED inventoryVars
    \/ /\ SkuAtProject(t, 1)
       /\ \E ok \in BOOLEAN : sync_fetch(t, ok)
       /\ SkuGoesOn(t)
       /\ SkuHistory /\ UNCHANGED inventoryVars
    \/ SkuAtProject(t, 1) /\ sync_build(t) /\ SkuGoesOn(t) /\ SkuHistory /\ UNCHANGED inventoryVars
    \/ SkuAtProject(t, 1) /\ sync_assign(t) /\ SkuGoesOn(t) /\ SkuHistory /\ UNCHANGED inventoryVars
    \/ SkuAtProject(t, 1) /\ save_begin(t) /\ SkuGoesOn(t) /\ SkuHistory /\ UNCHANGED inventoryVars
    \/ SkuAtProject(t, 1) /\ save_commit(t) /\ SkuGoesOn(t) /\ SkuHistory /\ UNCHANGED inventoryVars

-----------------------------------------------------------------------------
(* History of a run, read off the step just taken (ret') *)

StepOf(n, ops) == ret'.node = n /\ ret'.op \in ops

\* The rows a cycle of node n found pending, as long as nothing but the cycle
\* touches them: a faulty push, an update, a delete or an export ends that.
CycleRows(n) ==
    IF StepOf(n, {"push_read"}) THEN {r.id : r \in PendingRows(n)}
    ELSE IF StepOf(n, {"push"}) /\ ret'.why # "ok" THEN {}
    ELSE IF StepOf(n, {"update", "delete"}) /\ ret'.val THEN cycle_rows[n] \ {ret'.arg}
    ELSE IF ret'.op = "archive" THEN {}
    ELSE cycle_rows[n]

\* Ids of node n that the step takes from pending to synced.
MarkedBy(n) ==
    {r.id : r \in {x \in PendingRows(n) :
                      \E y \in local'[n] : y.id = x.id /\ y.sync_status = "synced"}}

\* Ids of node n that the step updates.
UpdatedBy(n) ==
    IF StepOf(n, {"update"}) /\ ret'.val THEN {ret'.arg} ELSE {}

\* The row count before a running export of node n, while no other operation
\* has run since the export began.
ExportCount(n) ==
    IF StepOf(n, {"archive_begin"}) THEN get_inventory_count_cached(n)
    ELSE IF StepOf(n, {"archive"})
         THEN IF apc[n] = "export" THEN export_count[n] ELSE get_inventory_count_cached(n)
    ELSE IF ret'.op \in {"remote_down", "remote_up"} THEN export_count[n]
    ELSE IF apc[n] = "export" THEN -1
    ELSE 0

\* How the last push of node n went.  A push begins ("reading") when it
\* selects the pending rows and completes when it returns after its commits,
\* with every fetched row written ("completed") or with some INSERT skipped
\* ("row_failed"); a push that begins right after a completed one is
\* "repeated".  A push cut short by a fault, a façade call that changes the
\* local table and an export make it "none".
PushState(n) ==
    IF StepOf(n, {"push_read"})
    THEN IF push_state[n] \in {"completed", "repeated"} THEN "repeated"
         ELSE IF PendingRows(n) = {} THEN "completed"
         ELSE "reading"
    ELSE IF StepOf(n, {"push"})
    THEN IF (wpc[n] = "idle" \/ push_state[n] = "reading") /\ ret'.why \in {"ok", "row_failed"}
         THEN IF ret'.why = "ok" THEN "completed" ELSE "row_failed"
         ELSE "none"
    ELSE IF StepOf(n, {"add", "update", "delete"}) /\ local'[n] # local[n] THEN "none"
    ELSE IF StepOf(n, {"archive_begin", "archive"}) THEN "none"
    ELSE push_state[n]

\* The ids of node n that an add created and that no push, of the worker or
\* of an export, has marked synced so far.
NeverPushed(n) ==
    LET created == IF StepOf(n, {"add"}) /\ ret'.val THEN {local_seq'[n]} ELSE {}
        marked == IF StepOf(n, {"push", "archive"}) THEN MarkedBy(n) ELSE {}
    IN (never_pushed[n] \cup created) \ marked

\* The phase that the step of node n brings to its return, "-" for any
\* other step.  A push that finds nothing pending returns after its SELECT.
PhaseReturned(n) ==
    IF ret'.node # n THEN "-"
    ELSE IF ret'.op \in {"push", "other_push"} THEN "push"
    ELSE IF ret'.op = "push_read" /\ wpc'[n] = "pull" THEN "push"
    ELSE IF ret'.op \in {"pull", "other_pull"} THEN "pull"
    ELSE IF ret'.op \in {"pull_imported", "other_imported"} THEN "imported"
    ELSE "-"

\* The phases that have returned in the cycle the worker thread of node n is
\* in; empty outside a cycle.
PhasesDone(n) ==
    IF wloop[n].at # "cycle" THEN {}
    ELSE IF PhaseReturned(n) # "-"
         THEN phases_done[n] \cup {<<wloop[n].project, PhaseReturned(n)>>}
         ELSE phases_done[n]

NodeHistory ==
    /\ phases_done' = [n \in Nodes |-> PhasesDone(n)]
    /\ never_pushed' = [n \in Nodes |-> NeverPushed(n)]
    /\ push_state' = [n \in Nodes |-> PushState(n)]
    /\ cycle_rows' = [n \in Nodes |-> CycleRows(n)]
    /\ synced_once' = [n \in Nodes |->
          {id \in (synced_once[n] \ UpdatedBy(n)) \cup MarkedBy(n) :
              LocalRowById(n, id)' # {}}]
    /\ synced_twice' = [n \in Nodes |->
          synced_twice[n] \cup (MarkedBy(n) \cap (synced_once[n] \ UpdatedBy(n)))]
    /\ export_count' = [n \in Nodes |-> ExportCount(n)]

\* Serials whose adder holds them synced: pushed by the node that added them.
PushedByAdder ==
    {p[2] : p \in {q \in added : \E r \in local[q[1]] :
                      r.serial_number = q[2] /\ r.sync_status = "synced"}}

\* Serials of synced rows of node b, not added by b, whose remote row another
\* node holds synced and deletes in this step.
DeletedElsewhereBy(b) ==
    IF ret'.op = "delete" /\ ret'.node # b /\ ret'.val
    THEN {r.serial_number : r \in {x \in LocalRowById(ret'.node, ret'.arg) :
             /\ x.sync_status = "synced"
             /\ <<b, x.serial_number>> \notin added
             /\ \E y \in local[b] : /\ y.serial_number = x.serial_number
                                    /\ y.sync_status = "synced"
                                    /\ y.remote_id = x.remote_id}}
    ELSE {}

\* A later add of the serial on any node, or any call on node b itself, ends
\* the wait of node b for the deletion.
DeletedElsewhere(b) ==
    IF ret'.op = "add" /\ ret'.val THEN deleted_elsewhere[b] \ {ret'.arg}
    ELSE IF StepOf(b, {"update", "delete", "archive_begin", "archive"}) THEN {}
    ELSE deleted_elsewhere[b] \cup DeletedElsewhereBy(b)

ClusterHistory ==
    /\ added' = IF ret'.op = "add" /\ ret'.val
                THEN added \cup {<<ret'.node, ret'.arg>>} ELSE added
    /\ only_adds' = (only_adds /\
                     ret'.op \notin {"update", "delete", "archive_begin", "archive"})
    /\ pushed_at_pull' = [n \in Nodes |->
          IF StepOf(n, {"pull"}) /\ ret'.why = "ok" THEN PushedByAdder
          ELSE pushed_at_pull[n]]
    /\ deleted_elsewhere' = [b \in Nodes |-> DeletedElsewhere(b)]

History == NodeHistory /\ ClusterHistory

HistoryInit ==
    /\ phases_done = [n \in Nodes |-> {}]
    /\ never_pushed = [n \in Nodes |-> {}]
    /\ push_state = [n \in Nodes |-> "none"]
    /\ cycle_rows = [n \in Nodes |-> {}]
    /\ synced_once = [n \in Nodes |-> {}]
    /\ synced_twice = [n \in Nodes |-> {}]
    /\ export_count = [n \in Nodes |-> 0]
    /\ added = {}
    /\ only_adds = TRUE
    /\ pushed_at_pull = [n \in Nodes |-> {}]
    /\ deleted_elsewhere = [n \in Nodes |-> {}]

-----------------------------------------------------------------------------
\* The tables as init_local_inventory_cache and init_inventory_db create them.
Construction ==
    /\ local = [n \in Nodes |-> {}]
    /\ local_seq = [n \in Nodes |-> 0]
    /\ tombstones = [n \in Nodes |-> {}]
    /\ last_pull = [n \in Nodes |-> FALSE]
    /\ imported_count = [n \in Nodes |-> 0]
    /\ imported = [n \in Nodes |-> {}]
    /\ remote = {}
    /\ remote_seq = 0
    /\ remote_imported = {}
    /\ imported_seq = 0
    /\ imported_clock = 0
    /\ remote_up \in BOOLEAN
    /\ wpc = [n \in Nodes |-> "idle"]
    /\ pending_items = [n \in Nodes |-> {}]
    /\ remote_items = [n \in Nodes |-> {}]
    /\ local_synced_serials = [n \in Nodes |-> {}]
    /\ apc = [n \in Nodes |-> "idle"]
    /\ local_items = [n \in Nodes |-> {}]
    /\ ret = Result("init", "-", NULL, TRUE, "ok")
    /\ calls = 0

Init == Construction /\ HistoryInit /\ SkuConstruction /\ SkuHistoryInit /\ LoopConstruction

\* The archive after many exports: size rows written in batches of batch
\* rows, each batch under one imported_at.
ArchiveOf(size, batch) ==
    {[id |-> i, serial_number |-> "SN1", fields |-> "f0",
      imported_at |-> ((i - 1) \div batch) + 1] : i \in 1..size}

\* Archive sizes around the window of the pull-archive phase, and batch sizes.
ArchiveSizes == {IMPORTED_WINDOW - 1, IMPORTED_WINDOW, IMPORTED_WINDOW + 1}
ArchiveBatches == {1, 3}

\* A node starts on a project that has been exported many times: the active
\* tables are empty, the remote archive is long, the local mirror is new.
LongArchive ==
    /\ local = [n \in Nodes |-> {}]
    /\ local_seq = [n \in Nodes |-> 0]
    /\ tombstones = [n \in Nodes |-> {}]
    /\ last_pull = [n \in Nodes |-> FALSE]
    /\ imported_count = [n \in Nodes |-> 0]
    /\ imported = [n \in Nodes |-> {}]
    /\ remote = {}
    /\ remote_seq = 0
    /\ \E size \in ArchiveSizes, batch \in ArchiveBatches :
          /\ remote_imported = ArchiveOf(size, batch)
          /\ imported_seq = size
          /\ imported_clock = ((size + batch - 1) \div batch)
    /\ remote_up = TRUE
    /\ wpc = [n \in Nodes |-> "idle"]
    /\ pending_items = [n \in Nodes |-> {}]
    /\ remote_items = [n \in Nodes |-> {}]
    /\ local_synced_serials = [n \in Nodes |-> {}]
    /\ apc = [n \in Nodes |-> "idle"]
    /\ local_items = [n \in Nodes |-> {}]
    /\ ret = Result("init", "-", NULL, TRUE, "ok")
    /\ calls = 0

\* Node A right after its first add_inventory_item_cached has returned True on
\* new tables: one pending row, nothing on the drive yet.
OneRowHeld ==
    /\ local = [n \in Nodes |-> IF n = "A" THEN {NewLocalRow(1, "f0", "SN1")} ELSE {}]
    /\ local_seq = [n \in Nodes |-> IF n = "A" THEN 1 ELSE 0]
    /\ tombstones = [n \in Nodes |-> {}]
    /\ last_pull = [n \in Nodes |-> FALSE]
    /\ imported_count = [n \in Nodes |-> 0]
    /\ imported = [n \in Nodes |-> {}]
    /\ remote = {}
    /\ remote_seq = 0
    /\ remote_imported = {}
    /\ imported_seq = 0
    /\ imported_clock = 0
    /\ remote_up = TRUE
    /\ wpc = [n \in Nodes |-> "idle"]
    /\ pending_items = [n \in Nodes |-> {}]
    /\ remote_items = [n \in Nodes |-> {}]
    /\ local_synced_serials = [n \in Nodes |-> {}]
    /\ apc = [n \in Nodes |-> "idle"]
    /\ local_items = [n \in Nodes |-> {}]
    /\ ret = Result("add", "A", "SN1", TRUE, "ok")
    /\ calls = 0

\* The history of that add.
OneRowHistory ==
    /\ phases_done = [n \in Nodes |-> {}]
    /\ never_pushed = [n \in Nodes |-> IF n = "A" THEN {1} ELSE {}]
    /\ push_state = [n \in Nodes |-> "none"]
    /\ cycle_rows = [n \in Nodes |-> {}]
    /\ synced_once = [n \in Nodes |-> {}]
    /\ synced_twice = [n \in Nodes |-> {}]
    /\ export_count = [n \in Nodes |-> 0]
    /\ added = {<<"A", "SN1">>}
    /\ only_adds = TRUE
    /\ pushed_at_pull = [n \in Nodes |-> {}]
    /\ deleted_elsewhere = [n \in Nodes |-> {}]

\* The ids a caller passes: those of the rows held and one that no row has.
CallIds(n) == {r.id : r \in local[n]} \cup {local_seq[n] + 1}

\* The façade calls on the nodes N, with the inputs drawn from the field
\* values V and the local storage outcomes OK.
Facade(N, V, OK) ==
    \/ \E n \in N, f \in V, s \in Serials, ok \in OK :
           add_inventory_item_cached(n, f, s, ok) /\ History /\ UNCHANGED <<skuVars, skuHistory, loopVars>>
    \/ \E n \in N : \E id \in CallIds(n), f \in V, s \in Serials, ok \in OK :
           update_inventory_item_cached(n, id, f, s, ok) /\ History /\ UNCHANGED <<skuVars, skuHistory, loopVars>>
    \/ \E n \in N : \E id \in CallIds(n), ok \in OK :
           delete_inventory_item_cached(n, id, ok) /\ History /\ UNCHANGED <<skuVars, skuHistory, loopVars>>

\* The reads of the façade on the nodes N.
Reads(N, OK) ==
    \/ \E n \in N, ok \in OK : list_inventory(n, ok) /\ History /\ UNCHANGED <<skuVars, skuHistory, loopVars>>
    \/ \E n \in N, ok \in OK : count_inventory(n, ok) /\ History /\ UNCHANGED <<skuVars, skuHistory, loopVars>>

\* The adds alone, of the serials S.
Adds(N, V, S, OK) ==
    \E n \in N, f \in V, s \in S, ok \in OK :
        add_inventory_item_cached(n, f, s, ok) /\ History /\ UNCHANGED <<skuVars, skuHistory, loopVars>>

\* The exports of the other nodes.
OtherNodes ==
    other_node_moves /\ History /\ UNCHANGED <<skuVars, skuHistory, loopVars>>

Export(N) ==
    \/ \E n \in N : move_to_imported_begin(n) /\ History /\ UNCHANGED <<skuVars, skuHistory, loopVars>>
    \/ \E n \in N :
           /\ apc[n] = "export"
           /\ \E failed \in SUBSET {r.id : r \in PendingRows(n)},
                 outcome \in PushOutcomes, move_ok \in BOOLEAN, refresh_ok \in BOOLEAN :
                  move_to_imported_finish(n, failed, outcome, move_ok, refresh_ok)
           /\ History /\ UNCHANGED <<skuVars, skuHistory, loopVars>>

\* The sync worker of the nodes N, statement by statement.
WorkerSteps(N) ==
    \/ \E n \in N : sync_to_remote_read(n) /\ History /\ UNCHANGED <<skuVars, skuHistory, loopVars>>
    \/ \E n \in N :
           /\ wpc[n] = "push_write"
           /\ \E failed \in SUBSET {i.id : i \in pending_items[n]},
                 outcome \in PushOutcomes :
                  sync_to_remote_write(n, failed, outcome)
           /\ History /\ UNCHANGED <<skuVars, skuHistory, loopVars>>
    \/ \E n \in N : sync_from_remote_read(n) /\ History /\ UNCHANGED <<skuVars, skuHistory, loopVars>>
    \/ \E n \in N :
           /\ wpc[n] = "pull_write"
           /\ \E c \in PullChoices(n, remote_items[n], local_synced_serials[n]),
                 ok \in BOOLEAN :
                  sync_from_remote_write(n, c, ok)
           /\ History /\ UNCHANGED <<skuVars, skuHistory, loopVars>>
    \/ \E n \in N, ok \in BOOLEAN : sync_imported_from_remote(n, ok) /\ History /\ UNCHANGED <<skuVars, skuHistory, loopVars>>

\* The sync worker of the nodes N, phase by phase.
WorkerPhases(N) ==
    \/ \E n \in N :
           /\ wpc[n] = "idle"
           /\ \E failed \in SUBSET {r.id : r \in PendingRows(n)},
                 outcome \in PushOutcomes :
                  sync_to_remote(n, failed, outcome)
           /\ History /\ UNCHANGED <<skuVars, skuHistory, loopVars>>
    \/ \E n \in N :
           /\ wpc[n] = "pull"
           /\ \E c \in PullChoices(n, remote, SyncedSerials(n)), ok \in BOOLEAN :
                  sync_from_remote(n, c, ok)
           /\ History /\ UNCHANGED <<skuVars, skuHistory, loopVars>>
    \/ \E n \in N, ok \in BOOLEAN : sync_imported_from_remote(n, ok) /\ History /\ UNCHANGED <<skuVars, skuHistory, loopVars>>

\* The application starts and stops the worker thread of the nodes N.
StartStop(N) ==
    \/ \E n \in N : start_inventory_sync(n) /\ History /\ UNCHANGED <<skuVars, skuHistory, skuLoopVars>>
    \/ \E n \in N : stop_inventory_sync(n) /\ History /\ UNCHANGED <<skuVars, skuHistory, skuLoopVars>>

\* The outcomes of a push of the worker thread.  A local commit that fails
\* after the remote one leaves the rows pending and their copies on the
\* drive, so that the next push gives them new remote ids: it is taken only
\* while the ids up to MaxRemoteId suffice for it, for the rows fetched and for
\* the rows that may still be added.
LoopPushOutcomes(n) ==
    IF remote_seq + Cardinality(pending_items[n]) + Cardinality(PendingRows(n))
         + (MaxCalls - calls) <= MaxRemoteId
    THEN PushOutcomes
    ELSE PushOutcomes \ {"local_commit_fails"}

\* The worker thread of node n: the startup delay, the cycles over the
\* projects with a test of the stop event before each phase, the wait
\* between two cycles.  The phases of the first project run statement by
\* statement on the tables.
WorkerLoop(n) ==
    \/ startup_wait(n) /\ History /\ UNCHANGED <<skuVars, skuHistory, skuLoopVars>>
    \/ worker_returns(n) /\ History /\ UNCHANGED <<skuVars, skuHistory, skuLoopVars>>
    \/ interval_wait(n) /\ History /\ UNCHANGED <<skuVars, skuHistory, skuLoopVars>>
    \/ /\ InCycle(n, 1) /\ ~stop_event[n]
       /\ sync_to_remote_read(n) /\ GoesOn(n)
       /\ History /\ UNCHANGED <<skuVars, skuHistory, skuLoopVars>>
    \/ /\ InCycle(n, 1) /\ wpc[n] = "push_write"
       /\ \E failed \in SUBSET {i.id : i \in pending_items[n]}, outcome \in LoopPushOutcomes(n) :
              sync_to_remote_write(n, failed, outcome)
       /\ GoesOn(n)
       /\ History /\ UNCHANGED <<skuVars, skuHistory, skuLoopVars>>
    \/ /\ InCycle(n, 1) /\ ~stop_event[n]
       /\ sync_from_remote_read(n) /\ GoesOn(n)
       /\ History /\ UNCHANGED <<skuVars, skuHistory, skuLoopVars>>
    \/ /\ InCycle(n, 1) /\ wpc[n] = "pull_write"
       /\ \E c \in PullChoices(n, remote_items[n], local_synced_serials[n]), ok \in BOOLEAN :
              sync_from_remote_write(n, c, ok)
       /\ GoesOn(n)
       /\ History /\ UNCHANGED <<skuVars, skuHistory, skuLoopVars>>
    \/ /\ InCycle(n, 1) /\ ~stop_event[n]
       /\ \E ok \in BOOLEAN : sync_imported_from_remote(n, ok)
       /\ GoesOn(n)
       /\ History /\ UNCHANGED <<skuVars, skuHistory, skuLoopVars>>
    \/ \E ok \in BOOLEAN :
           other_project_phase(n, ok) /\ History /\ UNCHANGED <<skuVars, skuHistory, skuLoopVars>>

Environment ==
    \/ remote_goes_down /\ History /\ UNCHANGED <<skuVars, skuHistory, loopVars>>
    \/ remote_comes_up /\ History /\ UNCHANGED <<skuVars, skuHistory, loopVars>>

vars == <<coreVars, nodeHistory, clusterHistory, skuVars, skuHistory, loopVars>>

\* One node, its worker interleaved statement by statement with the façade.
Next ==
    \/ Facade({"A"}, FieldValues, BOOLEAN)
    \/ Reads({"A"}, BOOLEAN)
    \/ WorkerSteps({"A"})
    \/ Export({"A"})
    \/ Environment

Spec == Init /\ [][Next]_vars

\* Two nodes sharing the remote store, their workers running phase by phase.
NextCluster ==
    \/ Facade(Nodes, {"f0"}, {TRUE})
    \/ WorkerPhases(Nodes)
    \/ Export(Nodes)

\* The cluster starts with the shared drive mounted; its faults are those of
\* the single statements (a row, a commit, the move).
InitCluster == Init /\ remote_up

SpecCluster == InitCluster /\ [][NextCluster]_vars

\* One node with its worker thread started and stopped by the application,
\* rows being added and the shared drive coming and going meanwhile.  The
\* thread runs whenever it can: it is never held back for ever.
NextWorker ==
    \/ Adds({"A"}, {"f0"}, Serials, {TRUE})
    \/ StartStop({"A"})
    \/ WorkerLoop("A")
    \/ Environment

SpecWorker == Init /\ [][NextWorker]_vars /\ WF_vars(WorkerLoop("A"))

\* One node that holds a row: exports, with rows being added and the worker
\* running statement by statement meanwhile.
NextExport ==
    \/ Adds({"A"}, {"f0"}, Serials, {TRUE})
    \/ Export({"A"})
    \/ WorkerSteps({"A"})

InitExport ==
    OneRowHeld /\ OneRowHistory /\ SkuConstruction /\ SkuHistoryInit /\ LoopConstruction

SpecExport == InitExport /\ [][NextExport]_vars

\* The moves of the remote active table, with every pattern of faults over
\* the attempts of the retry wrapper.
Moves ==
    \E faults \in [1..DB_RETRY_ATTEMPTS -> MoveFaults] :
        move_inventory_to_imported(faults) /\ History /\ UNCHANGED <<skuVars, skuHistory, loopVars>>

\* One node adds and pushes rows; the remote active table is moved to the
\* archive through the retry wrapper.
NextMove ==
    \/ Adds({"A"}, {"f0"}, Serials, {TRUE})
    \/ WorkerPhases({"A"})
    \/ Moves

SpecMove == InitCluster /\ [][NextMove]_vars

\* One node on a long archive: it adds rows, its worker runs phase by phase
\* with the faults of the single statements, other nodes export.
NextArchive ==
    \/ Adds({"A"}, {"f0"}, {"SN1"}, {TRUE})
    \/ WorkerPhases({"A"})
    \/ OtherNodes

InitArchive == LongArchive /\ HistoryInit /\ SkuConstruction /\ SkuHistoryInit /\ LoopConstruction

SpecArchive == InitArchive /\ [][NextArchive]_vars

\* The SKU cache: the UI thread and the background worker, statement by
\* statement.
NextSku ==
    \/ SkuFacade("ui")
    \/ SkuWriteSteps("ui")
    \/ SkuLoadSteps("ui")
    \/ SkuProbe("worker")
    \/ SkuLoadSteps("worker")

InitSku == Construction /\ remote_up /\ HistoryInit /\ SkuStart /\ SkuHistoryInit /\ LoopConstruction

SpecSku == InitSku /\ [][NextSku]_vars

\* The search on every content of the store and the mirror, with no other
\* thread at work.
NextSearch ==
    \/ SkuSearch("ui")
    \/ SkuLoadSteps("ui")

InitSearch == Construction /\ remote_up /\ HistoryInit /\ SearchStart /\ SkuHistoryInit /\ LoopConstruction

SpecSearch == InitSearch /\ [][NextSearch]_vars

\* The calls of the UI thread one after the other, no other thread at work.
NextCalls ==
    \/ SkuFacade("ui")
    \/ SkuSearch("ui")
    \/ SkuWriteSteps("ui")
    \/ SkuLoadSteps("ui")

SpecCalls == InitSku /\ [][NextCalls]_vars

\* The background worker probing a reachable store that other nodes write a
\* bounded number of times.  The worker thread runs for ever
\* (while not _sync_stop_event.is_set()), so each of its steps is taken once
\* it is due.
NextProbe ==
    \/ SkuOtherNodes
    \/ SkuWorkerReachable("worker")

SpecProbe == InitSku /\ [][NextProbe]_vars /\ WF_vars(SkuWorkerReachable("worker"))

\* The background worker of the SKU cache started and stopped by the
\* application.  A thread runs whenever it can.
NextSkuWorker ==
    \/ SkuStartStop
    \/ SkuWorkerLoop("worker")
    \/ SkuWorkerLoop("worker2")

SpecSkuWorker ==
    /\ InitSku
    /\ [][NextSkuWorker]_vars
    /\ WF_vars(SkuWorkerLoop("worker"))
    /\ WF_vars(SkuWorkerLoop("worker2"))

-----------------------------------------------------------------------------
(* Properties of one node *)

\* C1 (P2): an add of a serial the local cache does not hold, the local
\* storage working, returns True whether or not the remote is reachable,
\* leaves every remote table as it was, and the row is in the next listing
\* with sync_status = pending.
C1_AddSucceedsWithoutRemote ==
    [][\A n \in Nodes :
          (StepOf(n, {"add"}) /\ ret'.why # "storage" /\ ret'.arg \notin LocalSerials(n))
             => /\ ret'.val = TRUE
                /\ UNCHANGED remoteVars
                /\ \E row \in get_all_inventory_cached(n)' :
                      /\ row.serial_number = ret'.arg
                      /\ row.id = local_seq'[n]
                      /\ row.sync_status = "pending"]_vars

\* An add has just returned True with the remote unreachable and untouched,
\* and the listing shows the row as pending.
C1_Witness ==
    /\ ret.op = "add"
    /\ ret.val = TRUE
    /\ ~remote_up
    /\ remote = {}
    /\ \E row \in get_all_inventory_cached(ret.node) :
          row.serial_number = ret.arg /\ row.sync_status = "pending"

\* C2 (P4): whatever the remote holds and whatever ran between its read and
\* its write, the pull-active phase leaves every local pending row in place
\* with every field as it was.
C2_PullKeepsPendingRows ==
    [][\A n \in Nodes :
          StepOf(n, {"pull"}) => \A r \in PendingRows(n) : r \in local'[n]]_vars

\* A pull has just completed while the node holds a pending row that was
\* pushed before and whose serial the remote holds with other field values.
C2_Witness ==
    /\ ret.op = "pull"
    /\ ret.why = "ok"
    /\ \E r \in PendingRows(ret.node) :
          /\ r.remote_id # NULL
          /\ \E x \in remote : x.serial_number = r.serial_number /\ x.fields # r.fields

\* C3 (Scenario A): when a cycle of the worker has ended and its push met no
\* fault, every row that was pending when the cycle began and that no update,
\* delete or export touched since is synced, has a non-null remote_id, and
\* the remote active table holds the row of that id with its serial.
C3_CycleSyncsPendingRows ==
    \A n \in Nodes :
       wpc[n] = "idle" =>
          \A id \in cycle_rows[n] :
             \E r \in LocalRowById(n, id) :
                /\ r.sync_status = "synced"
                /\ r.remote_id # NULL
                /\ \E x \in remote : x.id = r.remote_id /\ x.serial_number = r.serial_number

\* A cycle has just ended that began with a pending row.
C3_Witness ==
    /\ ret.op = "pull_imported"
    /\ wpc[ret.node] = "idle"
    /\ cycle_rows[ret.node] # {}

\* C4 (P1): no row goes from pending to synced twice without an update of it
\* in between, and a row that an update has just returned True for is
\* pending, so the next push reads it.
C4_SyncedOncePerUpdate ==
    /\ \A n \in Nodes : synced_twice[n] = {}
    /\ (ret.op = "update" /\ ret.val = TRUE) =>
          \A r \in LocalRowById(ret.node, ret.arg) : r \in PendingRows(ret.node)

\* An update has just returned True for a row that a push had marked synced.
C4_Witness ==
    /\ ret.op = "update"
    /\ ret.val = TRUE
    /\ \E r \in LocalRowById(ret.node, ret.arg) :
          r.remote_id # NULL /\ r.sync_status = "pending"

\* C5: the remote active table holds at most one row per serial_number.
C5_RemoteOneRowPerSerial ==
    \A x, y \in remote : x.serial_number = y.serial_number => x.id = y.id

-----------------------------------------------------------------------------
(* Properties of two nodes *)

\* C6 (Scenario D): once another node has deleted a synced row that node b
\* had pulled, the row is gone from b after b's next pull-active phase.
C6_DeletePropagates ==
    (ret.op = "pull" /\ ret.why = "ok") =>
       deleted_elsewhere[ret.node] \cap LocalSerials(ret.node) = {}

\* C7 (Scenario B): as long as the nodes have only added records, a node
\* that has run its pull-active phase lists every record that its adder had
\* pushed by then; with one record added on each node, both list both.
C7_PullSurfacesPushedRecords ==
    only_adds =>
       \A n \in Nodes : \A s \in pushed_at_pull[n] :
          \E row \in get_all_inventory_cached(n) : row.serial_number = s

\* Each node added one of two distinct serials, both pushed, both pulled
\* afterwards, and each lists both records.
C7_Witness ==
    /\ only_adds
    /\ \E s1, s2 \in Serials :
          /\ s1 # s2
          /\ added = {<<"A", s1>>, <<"B", s2>>}
          /\ \A n \in Nodes :
                /\ pushed_at_pull[n] = {s1, s2}
                /\ {row.serial_number : row \in get_all_inventory_cached(n)} = {s1, s2}

\* C8: a pull-active phase that runs with nothing in between and commits
\* leaves (a) every serial of the remote active table in the local cache, a
\* serial that was missing as a synced row whose remote_id is the id of a
\* remote row with that serial, and (b) every synced local row with a serial
\* that the remote active table holds.
C8_PullReconciles ==
    [][\A n \in Nodes :
          (StepOf(n, {"pull"}) /\ ret'.why = "ok") =>
             /\ \A s \in RemoteSerials : s \in LocalSerials(n)'
             /\ \A s \in RemoteSerials \ LocalSerials(n) :
                   \E r \in local'[n] :
                      /\ r.serial_number = s
                      /\ r.sync_status = "synced"
                      /\ \E x \in remote : x.serial_number = s /\ x.id = r.remote_id
             /\ \A r \in local'[n] :
                   r.sync_status = "synced" => r.serial_number \in RemoteSerials]_vars

\* A pull has just committed on a node that holds a synced row it did not
\* add itself, carrying the id of its remote row.
C8_Witness ==
    /\ ret.op = "pull"
    /\ ret.why = "ok"
    /\ \E r \in local[ret.node] :
          /\ r.sync_status = "synced"
          /\ <<ret.node, r.serial_number>> \notin added
          /\ \E x \in remote : x.id = r.remote_id /\ x.serial_number = r.serial_number

-----------------------------------------------------------------------------
(* Properties of the export *)

-----------------------------------------------------------------------------
(* Properties of the façade calls *)

\* C11: an update of an id that no local row has returns False.
C11_UpdateOfMissingIdReturnsFalse ==
    (ret.op = "update" /\ LocalRowById(ret.node, ret.arg) = {}) => ret.val = FALSE

\* C12 as stated: after a delete of an existing row the row is gone, whatever
\* failed during the call.
C12_DeleteAlwaysRemoves ==
    ret.op = "delete" => LocalRowById(ret.node, ret.arg) = {}

\* C12 as the code has it: a delete of an existing row that returns True has
\* removed the row and recorded a tombstone for its remote_id exactly when
\* that was non-null; a delete that fails, on recording the tombstone or
\* elsewhere, returns False and leaves the row and the tombstones as they
\* were.
C12_DeleteRemovesUnlessItFails ==
    [][\A n \in Nodes :
          (StepOf(n, {"delete"}) /\ LocalRowById(n, ret'.arg) # {}) =>
             IF ret'.val
             THEN /\ \A r \in local'[n] : r.id # ret'.arg
                  /\ \A r \in LocalRowById(n, ret'.arg) :
                        /\ r.remote_id # NULL => tombstones'[n] = tombstones[n] \cup {r.remote_id}
                        /\ r.remote_id = NULL => tombstones'[n] = tombstones[n]
             ELSE /\ local'[n] = local[n]
                  /\ tombstones'[n] = tombstones[n]]_vars

\* A delete has just removed a pushed row and recorded its tombstone.
C12_Witness ==
    /\ ret.op = "delete"
    /\ ret.val = TRUE
    /\ LocalRowById(ret.node, ret.arg) = {}
    /\ ret.arg <= local_seq[ret.node]
    /\ tombstones[ret.node] # {}

\* C13: an add of a serial that a local row holds, pending or synced, returns
\* False and leaves the local table as it was; an add that returns True has
\* created exactly one row, pending and with a null remote_id.
C13_AddRejectsDuplicateSerial ==
    [][\A n \in Nodes :
          StepOf(n, {"add"}) =>
             /\ ret'.arg \in LocalSerials(n) =>
                   ret'.val = FALSE /\ local'[n] = local[n]
             /\ ret'.val = TRUE =>
                   \E r \in local'[n] :
                      /\ r \notin local[n]
                      /\ local'[n] = local[n] \cup {r}
                      /\ r.serial_number = ret'.arg
                      /\ r.sync_status = "pending"
                      /\ r.remote_id = NULL]_vars

\* An add has just been rejected for the serial of a synced row.
C13_Witness ==
    /\ ret.op = "add"
    /\ ret.val = FALSE
    /\ ret.why = "integrity"
    /\ \E r \in local[ret.node] :
          r.serial_number = ret.arg /\ r.sync_status = "synced"

-----------------------------------------------------------------------------
(* Properties of the push phase *)

C15_RecordInvariant ==
    \A n \in Nodes :
       /\ \A r \in local[n] : r.sync_status = "synced" => r.remote_id # NULL
       /\ \A id \in never_pushed[n] : \A r \in LocalRowById(n, id) :
             r.sync_status = "pending" /\ r.remote_id = NULL

\* A node holds a row that a push marked synced and a row added since that
\* no push has reached yet.
C15_Witness ==
    \E n \in Nodes : \E r, q \in local[n] :
       /\ r.sync_status = "synced" /\ r.id \notin never_pushed[n]
       /\ \E a \in added : a[1] = n /\ a[2] = r.serial_number
       /\ q.sync_status = "pending" /\ q.id \in never_pushed[n]

\* C16: a local row whose content no row of the remote store holds, in the
\* active or in the archive table, leaves the local table only by a delete of
\* that row or by an export; no step of the sync worker removes it.
C16_WorkerKeepsUncommittedRows ==
    [][\A n \in Nodes : \A r \in local[n] :
          (/\ \A x \in remote \cup remote_imported :
                 x.serial_number # r.serial_number \/ x.fields # r.fields
           /\ \A y \in local'[n] : y.id # r.id)
          => \/ StepOf(n, {"delete"}) /\ ret'.arg = r.id
             \/ StepOf(n, {"archive"})]_vars

-----------------------------------------------------------------------------
(* Properties of the SKU cache *)

\* C17: a search with prefix p and limit >= 1 returns, without raising, the
\* entries held whose upper-cased key starts with upper-cased p, in ascending
\* order of the keys, cut to the first limit of them.
C17_SearchByPrefix ==
    (sku_ret.op = "search" /\ sku_ret.why \in {"ok", "raised"}) =>
       /\ sku_ret.why = "ok"
       /\ LET all == sorted({k \in skus : startswith(upper(k), upper(sku_ret.arg[1]))})
          IN sku_ret.val = SubSeq(all, 1, Min(sku_ret.arg[2], Len(all)))

\* A search for "a" with limit 2 over A, AA, AB and B has returned A and AA.
C17_Witness ==
    /\ sku_ret.op = "search"
    /\ sku_ret.why = "ok"
    /\ sku_ret.arg = << <<"a">>, 2 >>
    /\ skus = {<<"A">>, <<"A", "A">>, <<"A", "B">>, <<"B">>}
    /\ sku_ret.val = << <<"A">>, <<"A", "A">> >>

\* C18: a write-through call (add, delete, bulk add, clear) that the store
\* rejects, or whose store write raises, returns at once with the map, the
\* sorted list and the version as they were; and a step of such a call
\* changes the map, the list or the version only after the store write of the
\* call reported success.
C18_WriteThroughOrder ==
    [][/\ (sku_ret'.op \in SkuMutations /\ sku_ret'.why \in {"rejected", "raised"}) =>
             /\ UNCHANGED <<skus, sku_list, version>>
             /\ tpc'[sku_ret'.thread] = "idle"
       /\ (/\ <<skus, sku_list, version>>' # <<skus, sku_list, version>>
           /\ frame[sku_ret'.thread].op \in SkuMutations) =>
             /\ store_ok[sku_ret'.thread]
             /\ sku_ret'.why \notin {"stored", "rejected", "raised"}]_vars

\* An add of a key the store holds has just returned False, the cache holding
\* the key from the add before.
C18_Witness ==
    /\ sku_ret.op = "add_sku"
    /\ sku_ret.why = "rejected"
    /\ sku_ret.val = FALSE
    /\ sku_calls = 2
    /\ skus # {}
    /\ version > 0
    /\ tpc["ui"] = "idle"

\* C19: whenever no thread holds the lock, the keys of the map are the
\* elements of the sorted list, and the list is strictly ascending.
C19_IndexConsistent ==
    cache_lock = "free" =>
       /\ Elements(sku_list) = skus
       /\ \A i, j \in 1..Len(sku_list) : i < j => Less(sku_list[i], sku_list[j])

\* The index holds two keys while the UI thread is about to save after a
\* delete and the worker is in a resync.
C19_Witness ==
    /\ cache_lock = "free"
    /\ Len(sku_list) >= 2
    /\ frame["ui"].op = "delete_sku"
    /\ tpc["ui"] = "save"
    /\ tpc["worker"] \in {"sync_build", "sync_assign", "save"}

\* C20: once an operation has saved the project and no thread is in a call,
\* the rows of the mirror are the entries of the map.
C20_MirrorAgrees ==
    (completed /\ \A t \in SkuThreads : tpc[t] = "idle") => sku_cache = skus

\* C21: with the store reachable and, from some point on, no longer written,
\* the probes of the background worker bring the in-memory map to the content
\* of the approved_skus table, and it stays there.
C21_EventuallyConsistent == <>[](skus = approved_skus)

C23_StoreFaultsNeverRaise ==
    ~(sku_ret.op \in SkuMutations /\ sku_ret.why = "raised")

-----------------------------------------------------------------------------
(* Properties of the worker's phases *)

C27_PullArchiveReplacesWindow ==
    [][ret'.op = "pull_imported" =>
          LET n == ret'.node
              mirror == imported'[n]
          IN IF ret'.why = "ok"
             THEN /\ mirror \subseteq remote_imported
                  /\ Cardinality(mirror) =
                        Min(IMPORTED_WINDOW, Cardinality(remote_imported))
                  /\ \A x \in mirror, y \in remote_imported \ mirror :
                        x.imported_at >= y.imported_at
                  /\ imported_count'[n] = Cardinality(remote_imported)
             ELSE /\ imported'[n] = imported[n]
                  /\ imported_count'[n] = imported_count[n]]_vars

\* A phase has completed on an archive longer than the window: the mirror
\* holds IMPORTED_WINDOW rows, the count is that of the archive.
C27_Witness ==
    /\ ret.op = "pull_imported"
    /\ ret.why = "ok"
    /\ Cardinality(remote_imported) > IMPORTED_WINDOW
    /\ Cardinality(imported[ret.node]) = IMPORTED_WINDOW
    /\ imported_count[ret.node] = Cardinality(remote_imported)

-----------------------------------------------------------------------------
(* Properties of the states of the SKU cache *)

\* C28: once clear_all_skus_cached has returned, and until the next write, a
\* search is answered from the structures in memory: no step of it loads the
\* project from the local mirror, starts a fetch from the store or changes
\* the version.
C28_ClearedStaysLoaded ==
    [][(cleared /\ frame["ui"].op = "search") =>
          /\ sku_ret'.why \notin {"load_local", "load_remote"}
          /\ version' = version]_vars

-----------------------------------------------------------------------------
(* Properties of a failing local cache *)

\* C29: a call that finds the local cache impossible to open or to query
\* changes no table and returns its failure value: the empty list for
\* get_all_inventory_cached, 0 for get_inventory_count_cached, False for add,
\* update and delete.
C29_LocalFaultDegrades ==
    [][ret'.why = "storage" =>
          /\ ret'.op \in {"list", "count", "add", "update", "delete"}
          /\ ret'.val = (CASE ret'.op = "list" -> {}
                           [] ret'.op = "count" -> 0
                           [] OTHER -> FALSE)
          /\ UNCHANGED <<localVars, remoteVars>>]_vars

\* A listing has just returned the empty list although the table holds a row.
C29_Witness ==
    /\ ret.op = "list"
    /\ ret.why = "storage"
    /\ ret.val = {}
    /\ local[ret.node] # {}

-----------------------------------------------------------------------------
(* Properties of the worker thread *)

\* The phases of project p that have returned in the running cycle of A.
DoneOf(p) == {ph \in {"push", "pull", "imported"} : <<p, ph>> \in phases_done["A"]}

\* C24: within one cycle the worker runs, for each project in turn, the push
\* phase, then the pull-active phase, then the pull-archive phase: a step of
\* a push is taken when every earlier project has had its three phases and
\* this project none, a step of a pull-active phase when exactly the push of
\* the project has returned, and the pull-archive phase when exactly its push
\* and its pull-active phase have.
C24_PhaseOrder ==
    [][(ret'.node = "A" /\ wloop["A"].at = "cycle") =>
        LET p == wloop["A"].project IN
        /\ ret'.op \in {"push_read", "push", "other_push"} =>
              /\ DoneOf(p) = {}
              /\ \A q \in 1..(p - 1) : DoneOf(q) = {"push", "pull", "imported"}
        /\ ret'.op \in {"pull_read", "pull", "other_pull"} => DoneOf(p) = {"push"}
        /\ ret'.op \in {"pull_imported", "other_imported"} => DoneOf(p) = {"push", "pull"}
      ]_vars

\* A cycle in which every phase of every project has returned.
C24_Witness ==
    /\ wloop["A"].at = "interval"
    /\ \A p \in 1..Len(Projects) : DoneOf(p) = {"push", "pull", "imported"}
    /\ ret.op = "other_imported"

\* The position of the worker after the phase ph of a project.
CheckpointAfter(ph) ==
    CASE ph = "push" -> "pull"
      [] ph = "pull" -> "imported"
      [] ph = "imported" -> "idle"

\* C25: a fault in a phase of a project does not stop the worker.  The step
\* in which a phase ends in a fault leaves the thread alive at the test that
\* precedes the next phase (of the next project, or at the wait between two
\* cycles, after a pull-archive phase); the thread ends only when stop was
\* requested; and unless stop is requested a running cycle reaches its end
\* and the wait between two cycles is followed by the next cycle.
C25_PhaseIsolation ==
    /\ [][(/\ ret'.node = "A"
            /\ wloop["A"].at = "cycle"
            /\ PhaseReturned("A") # "-"
            /\ ret'.why \in PhaseFaults) =>
              /\ wpc'["A"] = CheckpointAfter(PhaseReturned("A"))
              /\ wloop'["A"] = IF PhaseReturned("A") = "imported"
                               THEN NextProject(wloop["A"]) ELSE wloop["A"]
          ]_vars
    /\ [](wloop["A"].at = "stopped" => stop_event["A"])
    /\ (wloop["A"].at = "cycle") ~> (stop_event["A"] \/ wloop["A"].at = "interval")
    /\ (wloop["A"].at = "interval") ~> (stop_event["A"] \/ wloop["A"].at = "cycle")

\* A cycle whose end the thread has reached and whose last
\* phase, the pull-archive phase of the last project, has ended in a fault.
C25_Witness ==
    /\ wloop["A"].at = "interval"
    /\ ret.op = "other_imported"
    /\ ret.why = "fault"
    /\ \A p \in 1..Len(Projects) : DoneOf(p) = {"push", "pull", "imported"}

\* What the worker thread reports: its waits and tests, and the steps of its
\* phases.
LoopOps == {"startup", "interval", "return", "push_read", "push", "pull_read", "pull",
            "pull_imported", "other_push", "other_pull", "other_imported"}

\* The thread of A is inside a phase: between the SELECT and the writes of a
\* push or of a pull-active phase.
InFlight == wloop["A"].at = "cycle" /\ wpc["A"] \in {"push_write", "pull_write"}

\* C30: once the stop event is set the worker starts no further phase and
\* ends as soon as the phase in flight returns.  A step of the thread taken
\* with the event set either finishes the phase in flight, which leaves the
\* thread at a test of the event or at the wait, or ends the thread without a
\* step of any phase: from the startup delay (no phase has run then), from the
\* test before a phase, from the wait between two cycles.  And a thread that
\* is alive with the event set does end.
C30_PromptShutdown ==
    /\ [][(stop_event["A"] /\ ret'.node = "A" /\ ret'.op \in LoopOps) =>
            IF InFlight
            THEN /\ PhaseReturned("A") # "-"
                 /\ wloop'["A"].at \in {"cycle", "interval"}
                 /\ wpc'["A"] \in {"idle", "pull", "imported"}
            ELSE /\ ret'.op \in {"startup", "interval", "return"}
                 /\ wloop'["A"].at = "stopped"
                 /\ wloop["A"].at = "startup" => phases_done'["A"] = {}
                 /\ UNCHANGED <<localVars, remoteVars>>
          ]_vars
    /\ (stop_event["A"] /\ Alive("A")) ~> (wloop["A"].at = "stopped")

\* The thread has ended in the middle of a cycle, at the test that follows
\* the push of the first project.
C30_Witness ==
    /\ wloop["A"].at = "stopped"
    /\ stop_event["A"]
    /\ ret.op = "return"
    /\ DoneOf(1) = {"push"}
    /\ DoneOf(2) = {}

-----------------------------------------------------------------------------
(* Properties of the push phase and of the rows it marks *)

\* C31: a push marks a local row synced only after the remote transaction
\* that holds the row's write has committed.  A push that finds the remote
\* unreachable, or whose remote commit fails, changes no local row and no
\* remote row, so that every row it fetched is as pending as it was; and a
\* row that a push turns from pending to synced has, among the rows the push
\* has committed to the remote table, the row its remote_id names.
C31_MarkedAfterRemoteCommit ==
    [][(ret'.op = "push" /\ ret'.node = "A") =>
        /\ ret'.why \in {"unreachable", "remote_commit_fails"} =>
              /\ local'["A"] = local["A"]
              /\ remote' = remote
        /\ \A r \in local'["A"] :
              (/\ r.sync_status = "synced"
               /\ \E o \in local["A"] : o.id = r.id /\ o.sync_status = "pending") =>
                 \E x \in remote' \ remote : x.id = r.remote_id
      ]_vars

\* A push whose remote commit has failed, the rows still pending.
C31_Witness ==
    /\ ret.op = "push"
    /\ ret.node = "A"
    /\ ret.why = "remote_commit_fails"
    /\ PendingRows("A") # {}
    /\ remote = {}

\* C32: no edit is lost when update_inventory_item_cached interleaves with a
\* running push: whenever a local row is synced, the remote row its remote_id
\* names, if the remote table still holds it, has the serial number and the
\* field values of the local row.
C32_NoLostEdit ==
    \A r \in local["A"] :
        r.sync_status = "synced" =>
            \A x \in remote :
                x.id = r.remote_id =>
                    x.fields = r.fields /\ x.serial_number = r.serial_number

\* C33: a deleted row stays deleted on the deleting node.  The delete of a
\* synced row leaves a tombstone with the id of the remote row it was synced
\* with; remote ids are never given twice (AUTOINCREMENT), so a later add of
\* the serial number makes another remote row.  No step of a Sync Engine
\* phase of the node puts into its local table a row made from a remote row
\* that has a tombstone there.
C33_DeletedStaysDeleted ==
    [][(ret'.node = "A" /\ ret'.op \in {"push", "pull", "pull_imported"}) =>
        \A r \in local'["A"] :
            (\A o \in local["A"] : o.id # r.id) => r.remote_id \notin tombstones["A"]
      ]_vars

-----------------------------------------------------------------------------
(* Properties of the export and of the archive *)

\* C34: every row that move_to_imported_cached removes from the local active
\* table is in the sequence it returns, whatever add_inventory_item_cached
\* calls and pull-active phases run on the node while it is under way.
C34_RemovedRowsReturned ==
    [][(ret'.op = "archive" /\ ret'.node = "A") =>
        \A r \in local["A"] :
            (\A o \in local'["A"] : o.id # r.id) => \E row \in ret'.val : row.id = r.id
      ]_vars

\* The rows of a table with the serial number and the field values of r.
Copies(rows, r) ==
    Cardinality({x \in rows : x.serial_number = r.serial_number /\ x.fields = r.fields})

\* C35: the archive move moves each row exactly once, also when the retry
\* wrapper runs it again after a fault part-way through.  When the call
\* returns, the remote active table is empty and the archive has gained, for
\* every row that was active, as many rows of its content as were active;
\* and however the call ends, the archive never gains more rows of a content
\* than were active, nor any row while the active table keeps its rows.
C35_MovedExactlyOnce ==
    [][ret'.op = "move" =>
        LET gained == remote_imported' \ remote_imported
        IN /\ ret'.why = "returned" =>
                 /\ remote' = {}
                 /\ \A r \in remote : Copies(gained, r) = Copies(remote, r)
           /\ \A r \in remote : Copies(gained, r) <= Copies(remote, r)
           /\ remote' # {} => gained = {}
      ]_vars

-----------------------------------------------------------------------------
(* Properties of the retry wrapper *)

\* How the runs of the move that the step reports would end, one by one.
RunOutcomes == [i \in 1..DB_RETRY_ATTEMPTS |-> MoveOutcome(remote, ret'.arg[i])]

\* C40: with_retry runs the wrapped operation at most DB_RETRY_ATTEMPTS times
\* and ends; every run but the last one made has raised a database error
\* (an exception of another class is not retried, a return is not followed
\* by another run); the wrapper returns exactly when the last run made
\* returned, and raises the error of that run otherwise, which happens only
\* for an exception of another class or when the attempts are used up.
C40_BoundedRetry ==
    [][ret'.op = "move" =>
        LET runs == ret'.val
        IN /\ runs \in 1..DB_RETRY_ATTEMPTS
           /\ \A i \in 1..(runs - 1) :
                  RunOutcomes[i] \in {"OperationalError", "DatabaseError"}
           /\ ret'.why = RunOutcomes[runs]
           /\ ret'.why # "returned" =>
                  (ret'.why = "Exception" \/ runs = DB_RETRY_ATTEMPTS)
      ]_vars

\* A move that returned from its second run, the first having failed after
\* the archive was committed.
C40_Witness ==
    /\ ret.op = "move"
    /\ ret.val = 2
    /\ ret.why = "returned"
    /\ ret.arg[1] = "clear_fails"
    /\ remote = {}
    /\ remote_imported # {}

-----------------------------------------------------------------------------
(* Properties of the reference cache under concurrent resyncs *)

\* C36: read-your-writes.  Once add_sku_cached(sku) has returned True,
\* is_valid_sku_cached(sku) answers True in every later state, until
\* delete_sku_cached or clear_all_skus_cached removes the sku, whatever the
\* background worker does meanwhile.
C36_ReadYourWrites == \A k \in added_skus : is_valid_sku_cached(k)

-----------------------------------------------------------------------------
(* Properties of the restart of the worker threads *)

\* C38: after stop_inventory_sync followed by start_inventory_sync a worker
\* runs cycles again with the stop event cleared, also when the thread was
\* inside a phase when the join of the stop timed out, and two workers are
\* never alive.  The stop event is cleared only while no thread is alive, so
\* that a thread that was told to stop is never set going again beside a new
\* one; and once start_inventory_sync has returned, having started a thread
\* or having found the old one inside a phase, the thread is in a cycle with
\* the event cleared at some later time, unless stop_inventory_sync is called
\* again before.
C38_RestartRuns ==
    /\ [][(stop_event["A"] /\ ~stop_event'["A"]) => ~Alive("A")]_vars
    /\ (ret.op = "start" /\ ret.node = "A" /\ (ret.why = "started" \/ InFlight)) ~>
          (\/ wloop["A"].at = "cycle" /\ ~stop_event["A"]
           \/ ret.op = "stop")
\* C39: at most one background worker of the SKU cache is alive at any
\* time, whatever sequence of start_background_sync and stop_background_sync
\* is called, also when a start follows a stop whose join timed out on a
\* thread inside a call to the store; and a thread that was told to stop (it
\* is alive and _sync_thread no longer names it) does return.
C39_OneSkuWorker ==
    /\ [](Cardinality({t \in SkuWorkers : SkuAlive(t)}) <= 1)
    /\ \A t \in SkuWorkers :
          (SkuAlive(t) /\ sku_sync_thread # t) ~> (sku_loop[t].at = "stopped")
====
